---- MODULE Spec2Model ----
(***************************************************************************)
(* Model of the artweb storefront's catalog layer.                         *)
(*                                                                         *)
(*   Spec       the cached CategoryAPI (lib/api/categories): the module    *)
(*              level cache, the three reads, the three writes, the        *)
(*              network and the clock.                                     *)
(*   SpecPages  the product listing pages (products, products catalog,     *)
(*              client products list, category page) and the list query    *)
(*              productApi.getProducts they call.                          *)
(*   SpecNormalize  normalizeProduct and normalizeCategory on one record.  *)
(*   SpecOrders the order details pages of the user and of the admin.      *)
(*   SpecServer the backend server's middleware, routes and error handler. *)
(*   SpecClient the client components taken one at a time: the main image  *)
(*              of a product, the pagination list, the admin order router, *)
(*              the auth provider, the cart page's move to the wishlist.   *)
(***************************************************************************)
EXTENDS Integers, Sequences, FiniteSets, TLC

VARIABLES
    now,              \* the clock, in ticks of TickMs milliseconds
    categoriesCache,  \* let categoriesCache = { data, timestamp }
    categoryCache,    \* let categoryCache = new Map<string, { data, timestamp }>
    srvVer,           \* number of category writes the server has applied
    calls,            \* per caller: the CategoryAPI call it is suspended in
    ev,               \* what the latest step did: a call started, a call returned, neither
    hist,             \* history of the run, read only by the properties
    gp,               \* the productApi.getProducts call of the page being rendered
    pg,               \* the listing page being rendered
    nz,               \* the record being normalized
    od,               \* one order on the server, and the two pages showing it
    be,               \* the backend server and the request it is answering
    ui                \* the client component at work: what it was given, what it holds

cacheVars == <<now, categoriesCache, categoryCache, srvVer, calls, ev, hist>>

pageVars == <<gp, pg>>

vars == <<cacheVars, pageVars, nz, od, be, ui>>

\* What the category cache's steps leave alone, what the pages' steps do, and
\* what a normalization does.
OutsideCache == <<pageVars, nz, od, be, ui>>

OutsidePages == <<cacheVars, nz, od, be, ui>>

OutsideNormalize == <<cacheVars, pageVars, od, be, ui>>

OutsideOrders == <<cacheVars, pageVars, nz, be, ui>>

OutsideServer == <<cacheVars, pageVars, nz, od, ui>>

-----------------------------------------------------------------------------
(* Bounds *)

MaxTicks == 2
MaxWrites == 1
MaxLoads == 3
MaxImages == 3
MaxPages == 12
MaxOps == 3

\* One tick of the clock is 2.5 minutes, so an entry can be aged less than
\* 5 minutes (no tick, one tick) and exactly 5 minutes (two ticks).
TickMs == 150 * 1000

\* The tasks that may be suspended in a CategoryAPI call at the same time.
Callers == {"A", "B"}

\* The lookup keys the callers use: "k2" is the id of one category and the
\* slug of another.
Keys == {"k2"}

-----------------------------------------------------------------------------
(* Values *)

Null == [tag |-> "null"]
List(items) == [tag |-> "list", items |-> items]
Bool(b) == [tag |-> "bool", b |-> b]
Category(id, slug, ver) == [tag |-> "cat", id |-> id, slug |-> slug, ver |-> ver]

\* JavaScript truthiness of a value that is null, an array or an object.
Truthy(v) == v.tag # "null"

\* The server's categories after ver writes.
ServerCategories(ver) == << Category("k1", "k2", ver), Category("k2", "s2", ver) >>

ServerById(id, ver) ==
    LET hit == { i \in 1..Len(ServerCategories(ver)) : ServerCategories(ver)[i].id = id }
    IN  IF hit = {} THEN Null ELSE ServerCategories(ver)[CHOOSE i \in hit : TRUE]

ServerBySlug(slug, ver) ==
    LET hit == { i \in 1..Len(ServerCategories(ver)) : ServerCategories(ver)[i].slug = slug }
    IN  IF hit = {} THEN Null ELSE ServerCategories(ver)[CHOOSE i \in hit : TRUE]

-----------------------------------------------------------------------------
(* The cache *)

CACHE_DURATION == 5 * 60 * 1000

DateNow == now * TickMs

EmptyMap == [k \in {} |-> Null]

\* categoryCache.get(key): undefined (Null here) when the key is not in the map.
MapGet(map, key) == IF key \in DOMAIN map THEN map[key] ELSE Null

\* categoryCache.set(key, entry)
MapSet(map, key, entry) == [k \in (DOMAIN map) \cup {key} |-> IF k = key THEN entry ELSE map[k]]

Entry(data, timestamp) == [tag |-> "entry", data |-> data, timestamp |-> timestamp]

IsFreshLate(timestamp) == DateNow - timestamp <= CACHE_DURATION

\* Date.now() - timestamp < CACHE_DURATION
IsFresh(timestamp) == DateNow - timestamp < CACHE_DURATION

\* if (categoriesCache.data && Date.now() - categoriesCache.timestamp < CACHE_DURATION)
AllCacheHit == Truthy(categoriesCache.data) /\ IsFresh(categoriesCache.timestamp)

\* if (cached && Date.now() - cached.timestamp < CACHE_DURATION)
KeyCacheHit(key) ==
    LET cached == MapGet(categoryCache, key)
    IN  Truthy(cached) /\ IsFresh(cached.timestamp)

ClearedSnapshotKept(cache) == cache

\* clearCache: categoriesCache = { data: null, timestamp: 0 }
ClearedSnapshot(cache) == [data |-> Null, timestamp |-> 0]

ClearedMapKept(map) == map

\* clearCache: categoryCache.clear()
ClearedMap(map) == EmptyMap

StoredSnapshotAtZero(categories) == [data |-> categories, timestamp |-> 0]

\* getAll: categoriesCache = { data: categories, timestamp: Date.now() }
StoredSnapshot(categories) == [data |-> categories, timestamp |-> DateNow]

GetAllOnErrorEmpty(cache) == List(<<>>)

GetAllOnErrorFresh(cache) ==
    IF Truthy(cache.data) /\ DateNow - cache.timestamp < CACHE_DURATION THEN cache.data ELSE List(<<>>)

\* getAll's catch: return categoriesCache.data || []
GetAllOnError(cache) == IF Truthy(cache.data) THEN cache.data ELSE List(<<>>)

-----------------------------------------------------------------------------
(* Calls, replies and events *)

Reads == {"getAll", "getBySlug", "getById"}
Writes == {"create", "update", "delete"}

Idle == [pc |-> "idle"]

\* A read suspended at `await fetch(...)`; ver: the writes the server had
\* applied when the request was issued.
SentRead(op, key) == [pc |-> "sent", op |-> op, key |-> key, ver |-> srvVer]

\* A write suspended at `await fetch(...)`, its request not yet at the server.
SentWrite(op) == [pc |-> "sent", op |-> op]

\* A write suspended at `await fetch(...)`, its response on the way.
Replied(op, reply) == [pc |-> "replied", op |-> op, reply |-> reply]

\* fetch rejected, response.ok false, or response.json() rejected
Failure == [kind |-> "fail"]

\* a 2xx response with a JSON body { success, data }
Body(success, data) == [kind |-> "ok", success |-> success, data |-> data]

NoEvent == [kind |-> "none", op |-> "", key |-> "", how |-> "",
            threw |-> FALSE, result |-> Null, reqs |-> 0]

\* A call went to the network and is suspended.
Started(c, op, key) == [kind |-> "start", op |-> op, key |-> key, how |-> "",
                        threw |-> FALSE, result |-> Null, reqs |-> 1]

\* A call returned or threw.  how: "hit" (answered from the cache, no await),
\* "ok" (the fetch succeeded), "fail" (the fetch failed).  reqs: the network
\* requests the call issued.
Return(c, op, key, how, threw, result, reqs) ==
    [kind |-> "return", op |-> op, key |-> key, how |-> how,
     threw |-> threw, result |-> result, reqs |-> reqs]

PendingWrites == Cardinality({ c \in Callers : calls[c].pc # "idle" /\ calls[c].op \in Writes })

NoHist == [writeSinceRead |-> FALSE,   \* a write succeeded and no read has started since
           anyWrite |-> FALSE,         \* some write has succeeded
           okHas |-> FALSE,            \* some getAll fetch has succeeded
           okSnap |-> Null,            \* the snapshot the latest such fetch stored
           okTime |-> 0,               \* Date.now() when it stored it
           okReqs |-> 0,               \* the network requests that call issued
           writeSinceOk |-> FALSE,     \* a write succeeded after it
           clearedBoth |-> FALSE]      \* the latest successful write dropped a snapshot and an entry

ReadStarted == [hist EXCEPT !.writeSinceRead = FALSE]

WriteSucceeded ==
    [hist EXCEPT !.writeSinceRead = TRUE, !.writeSinceOk = hist.okHas, !.anyWrite = TRUE,
                 !.clearedBoth = Truthy(categoriesCache.data) /\ DOMAIN categoryCache # {}]

FetchStored(categories, reqs) ==
    [hist EXCEPT !.okHas = TRUE, !.okSnap = categories, !.okTime = DateNow,
                 !.okReqs = reqs, !.writeSinceOk = FALSE]

-----------------------------------------------------------------------------
(* Strings and numbers of the listing pages *)

\* A string is the sequence of its characters; an absent query parameter and
\* the empty string, both falsy, are the empty sequence.
CreatedAt == <<"c", "r", "e", "a", "t", "e", "d", "A", "t">>
Price == <<"p", "r", "i", "c", "e">>
Name == <<"n", "a", "m", "e">>
Desc == <<"d", "e", "s", "c">>
DashDesc == <<"-">> \o Desc
PriceDesc == Price \o DashDesc
NameDesc == Name \o DashDesc

\* String.prototype.includes
Includes(s, sub) ==
    \E i \in 1..(Len(s) - Len(sub) + 1) : SubSeq(s, i, i + Len(sub) - 1) = sub

\* String.prototype.replace with a string pattern: the first occurrence only
Replace(s, sub, by) ==
    IF ~Includes(s, sub)
      THEN s
      ELSE LET i == CHOOSE j \in 1..(Len(s) - Len(sub) + 1) :
                        /\ SubSeq(s, j, j + Len(sub) - 1) = sub
                        /\ \A k \in 1..(j - 1) : SubSeq(s, k, k + Len(sub) - 1) # sub
           IN  SubSeq(s, 1, i - 1) \o by \o SubSeq(s, i + Len(sub), Len(s))

\* a || b on strings
OrString(a, b) == IF a = <<>> THEN b ELSE a

\* A JavaScript number: an integer or NaN
Num(n) == [nan |-> FALSE, n |-> n]
NaN == [nan |-> TRUE, n |-> 0]

Gt(a, b) == ~a.nan /\ ~b.nan /\ a.n > b.n
Lt(a, b) == ~a.nan /\ ~b.nan /\ a.n < b.n
Le(a, b) == ~a.nan /\ ~b.nan /\ a.n <= b.n
Ge(a, b) == ~a.nan /\ ~b.nan /\ a.n >= b.n
StrictEq(a, b) == ~a.nan /\ ~b.nan /\ a.n = b.n

\* a + k for an integer k
Plus(a, k) == IF a.nan THEN NaN ELSE Num(a.n + k)

MathMax(a, b) == IF a.nan \/ b.nan THEN NaN ELSE Num(IF a.n >= b.n THEN a.n ELSE b.n)
MathMin(a, b) == IF a.nan \/ b.nan THEN NaN ELSE Num(IF a.n <= b.n THEN a.n ELSE b.n)

\* Math.ceil(a / b) for a positive integer b
MathCeilDiv(a, b) ==
    IF a.nan THEN NaN
    ELSE IF a.n >= 0 THEN Num((a.n + b - 1) \div b)
    ELSE Num(-((-a.n) \div b))

\* a || b on numbers: 0 and NaN are falsy
OrNum(a, b) == IF a.nan \/ a.n = 0 THEN b ELSE a

\* parseInt(s) without a radix, on strings with no 0x prefix: leading blanks
\* skipped, an optional sign, then the longest run of digits; NaN without one.
parseInt(s) ==
    LET DigitChars == <<"0", "1", "2", "3", "4", "5", "6", "7", "8", "9">>
        IsDigit(c) == \E i \in 1..Len(DigitChars) : DigitChars[i] = c
        DigitValue(c) == (CHOOSE i \in 1..Len(DigitChars) : DigitChars[i] = c) - 1
        RECURSIVE TrimStart(_)
        TrimStart(r) == IF r # <<>> /\ Head(r) = " " THEN TrimStart(Tail(r)) ELSE r
        RECURSIVE LeadingDigits(_)
        LeadingDigits(r) ==
            IF r # <<>> /\ IsDigit(Head(r))
              THEN <<Head(r)>> \o LeadingDigits(Tail(r))
              ELSE <<>>
        RECURSIVE DigitsValue(_, _)
        DigitsValue(r, acc) ==
            IF r = <<>> THEN acc ELSE DigitsValue(Tail(r), 10 * acc + DigitValue(Head(r)))
        t == TrimStart(s)
        signed == t # <<>> /\ Head(t) \in {"-", "+"}
        ds == LeadingDigits(IF signed THEN Tail(t) ELSE t)
    IN  IF ds = <<>> THEN NaN
        ELSE IF signed /\ Head(t) = "-" THEN Num(-DigitsValue(ds, 0))
        ELSE Num(DigitsValue(ds, 0))

\* The page query parameters tried: absent, non-numeric, zero, negative, the
\* first pages, a page beyond the last one, digits followed by text.
PageParams == { <<>>, <<"a", "b", "c">>, <<"0">>, <<"-", "1">>, <<"1">>, <<"2">>,
                <<"9", "9">>, <<"2", "x">> }

\* The options of the sort select (the values the sort parameter takes)
SortKeys == { CreatedAt, Price, PriceDesc, Name, NameDesc }

\* The sort query parameters tried: absent, or one of the keys
SortParams == { <<>> } \cup SortKeys

\* The numbers of products the store holds
Totals == { 0, 1, 12, 13, 25, 61 }

\* const limit = 12
PageLimit == 12

-----------------------------------------------------------------------------
(* productApi.getProducts: results *)

\* The result object of getProducts
ProductsResult(products, total, totalPages, page, limit) ==
    [products |-> products, total |-> total, totalPages |-> totalPages,
     page |-> page, limit |-> limit]

getProductsOnErrorNoPages ==
    ProductsResult(<<>>, Num(0), Num(0), Num(1), Num(12))

\* The catch block of getProducts
getProductsOnError ==
    ProductsResult(<<>>, Num(0), Num(1), Num(1), Num(12))

\* The body { success, data: { products, total, totalPages } }
Paged(products, total, totalPages) ==
    [tag |-> "paged", products |-> products, total |-> total, totalPages |-> totalPages]

\* getProducts from the parsed body on: the normalised response format.
\* A product stands for its normalised form here.
getProductsResult(params, result) ==
    LET paged == result.success /\ result.data.tag = "paged"
        listed == result.success /\ result.data.tag = "list"
        products == IF paged THEN result.data.products
                    ELSE IF listed THEN result.data.items
                    ELSE <<>>
        total == IF paged THEN OrNum(result.data.total, Num(Len(products)))
                 ELSE IF listed THEN Num(Len(products))
                 ELSE Num(0)
        totalPages == IF paged THEN OrNum(result.data.totalPages, Num(1)) ELSE Num(1)
    IN  ProductsResult(products, total, OrNum(totalPages, Num(1)),
                       OrNum(params.page, Num(1)), OrNum(params.limit, Num(12)))

\* The parameters of a list query
Params(page, limit, sortBy, sortOrder) ==
    [page |-> page, limit |-> limit, sortBy |-> sortBy, sortOrder |-> sortOrder]

\* No result yet
NoResult == ProductsResult(<<>>, Num(0), Num(0), Num(0), Num(0))

\* The getProducts call of the page: not made, awaiting fetch, settled
GpIdle == [pc |-> "idle", params |-> Params(Num(1), Num(12), <<>>, ""),
           outcome |-> "", threw |-> FALSE, result |-> NoResult]

GpSent(params) == [GpIdle EXCEPT !.pc = "sent", !.params = params]

GpDone(call, outcome, result) ==
    [call EXCEPT !.pc = "done", !.outcome = outcome, !.result = result]

-----------------------------------------------------------------------------
(* The listing pages: what a render holds *)

\* What the page has drawn: the total number of pages and the current page
\* the pagination block works with, whether the block is drawn at all, the
\* page numbers shown and the page numbers its links lead to.
NoView == [totalPages |-> Num(0), currentPage |-> Num(0), paginated |-> FALSE,
           visiblePages |-> <<>>, links |-> {}, hasMore |-> TRUE]

View(totalPages, currentPage, paginated, visiblePages, links, hasMore) ==
    [totalPages |-> totalPages, currentPage |-> currentPage, paginated |-> paginated,
     visiblePages |-> visiblePages, links |-> links, hasMore |-> hasMore]

PgIdle == [pc |-> "idle", route |-> "", page |-> Num(1), sortBy |-> <<>>,
           categories |-> FALSE, data |-> NoResult, view |-> NoView]

-----------------------------------------------------------------------------
(* Records as the API delivers them, and their normalization *)

\* JavaScript values: undefined, null (Null), strings, booleans (Bool),
\* numbers (Num), arrays (List) and objects.  A property an object lacks
\* reads as undefined.
Undefined == [tag |-> "undefined"]
Str(s) == [tag |-> "string", s |-> s]
Obj(fields) == [tag |-> "object", fields |-> fields]

Get(data, f) == IF f \in DOMAIN data.fields THEN data.fields[f] ELSE Undefined

\* Truthiness: undefined, null, '', 0, NaN and false are falsy
JsTruthy(v) ==
    IF "nan" \in DOMAIN v THEN ~v.nan /\ v.n # 0
    ELSE IF v.tag \in {"undefined", "null"} THEN FALSE
    ELSE IF v.tag = "string" THEN v.s # ""
    ELSE IF v.tag = "bool" THEN v.b
    ELSE TRUE

\* a || b
JsOr(a, b) == IF JsTruthy(a) THEN a ELSE b

normalizeProductNoDefaults(data) ==
    IF ~JsTruthy(data)
      THEN Obj([id |-> Str(""), _id |-> Str(""), name |-> Str(""), slug |-> Str(""),
                description |-> Str(""), price |-> Num(0), sku |-> Str(""),
                stock |-> Num(0), tags |-> List(<<>>), isActive |-> Bool(TRUE),
                isFeatured |-> Bool(FALSE), isBestSeller |-> Bool(FALSE),
                images |-> List(<<>>), createdAt |-> Str(""), updatedAt |-> Str("")])
      ELSE Obj([f \in {"_id", "id", "name", "slug", "description", "price", "sku", "stock",
                       "tags", "isActive", "isFeatured", "isBestSeller", "images",
                       "createdAt", "updatedAt"} |-> Get(data, f)])

\* ProductAPI.normalizeProduct
normalizeProduct(data) ==
    IF ~JsTruthy(data)
      THEN Obj([id |-> Str(""), _id |-> Str(""), name |-> Str(""), slug |-> Str(""),
                description |-> Str(""), price |-> Num(0), sku |-> Str(""),
                stock |-> Num(0), tags |-> List(<<>>), isActive |-> Bool(TRUE),
                isFeatured |-> Bool(FALSE), isBestSeller |-> Bool(FALSE),
                images |-> List(<<>>), createdAt |-> Str(""), updatedAt |-> Str("")])
      ELSE LET category == Get(data, "category")
               categoryDotId == IF category.tag = "object" THEN Get(category, "id")
                                ELSE Undefined
           IN  Obj([_id |-> JsOr(Get(data, "_id"), Get(data, "id")),
                    id |-> JsOr(JsOr(Get(data, "id"), Get(data, "_id")), Str("")),
                    name |-> JsOr(Get(data, "name"), Str("")),
                    slug |-> JsOr(Get(data, "slug"), Str("")),
                    description |-> JsOr(Get(data, "description"), Str("")),
                    shortDescription |-> Get(data, "shortDescription"),
                    price |-> JsOr(Get(data, "price"), Num(0)),
                    compareAtPrice |-> Get(data, "compareAtPrice"),
                    costPrice |-> Get(data, "costPrice"),
                    sku |-> JsOr(Get(data, "sku"), Str("")),
                    barcode |-> Get(data, "barcode"),
                    stock |-> JsOr(Get(data, "stock"), Num(0)),
                    weight |-> Get(data, "weight"),
                    dimensions |-> Get(data, "dimensions"),
                    categoryId |-> JsOr(JsOr(Get(data, "categoryId"), categoryDotId), Null),
                    category |-> category,
                    tags |-> JsOr(Get(data, "tags"), List(<<>>)),
                    isActive |-> Bool(Get(data, "isActive") # Bool(FALSE)),
                    isFeatured |-> JsOr(Get(data, "isFeatured"), Bool(FALSE)),
                    isBestSeller |-> JsOr(Get(data, "isBestSeller"), Bool(FALSE)),
                    metaTitle |-> Get(data, "metaTitle"),
                    metaDescription |-> Get(data, "metaDescription"),
                    images |-> JsOr(Get(data, "images"), List(<<>>)),
                    createdAt |-> Get(data, "createdAt"),
                    updatedAt |-> Get(data, "updatedAt")])

\* CategoryAPI.normalizeCategory
normalizeCategory(data) ==
    IF ~JsTruthy(data)
      THEN data
      ELSE LET String(v) == IF v.tag = "string" THEN v
                            ELSE IF v.tag = "bool" THEN Str(IF v.b THEN "true" ELSE "false")
                            ELSE IF v.tag = "object" THEN Str("[object Object]")
                            ELSE Str(v.tag)
               \* a ?? b
               Nullish(a, b) == IF a.tag \in {"undefined", "null"} THEN b ELSE a
               name == Get(data, "name")
               dataImage == Get(data, "image")
               image == IF dataImage.tag = "string"
                          THEN Obj([url |-> dataImage, publicId |-> Undefined,
                                    altText |-> JsOr(name, Str(""))])
                        ELSE IF dataImage.tag = "object"
                          THEN Obj([url |-> Get(dataImage, "url"),
                                    publicId |-> Get(dataImage, "publicId"),
                                    altText |-> Nullish(Get(dataImage, "altText"),
                                                        Nullish(name, Str("")))])
                        ELSE Null
               \* (data.parentId ?? data.parentId === '') ? null : data.parentId
               parentId == IF JsTruthy(Nullish(Get(data, "parentId"),
                                               Bool(Get(data, "parentId") = Str(""))))
                             THEN Null
                             ELSE Get(data, "parentId")
           IN  Obj([_id |-> IF JsTruthy(Get(data, "_id")) THEN String(Get(data, "_id"))
                            ELSE IF JsTruthy(Get(data, "id")) THEN String(Get(data, "id"))
                            ELSE Str(""),
                    id |-> IF JsTruthy(Get(data, "id")) THEN String(Get(data, "id"))
                           ELSE IF JsTruthy(Get(data, "_id")) THEN String(Get(data, "_id"))
                           ELSE Str(""),
                    name |-> JsOr(name, Str("")),
                    slug |-> JsOr(Get(data, "slug"), Str("")),
                    description |-> JsOr(Get(data, "description"), Str("")),
                    image |-> image,
                    parentId |-> IF JsTruthy(parentId) THEN String(parentId) ELSE Null,
                    isActive |-> Bool(Get(data, "isActive") # Bool(FALSE)),
                    createdAt |-> Get(data, "createdAt"),
                    updatedAt |-> Get(data, "updatedAt"),
                    __v |-> Get(data, "__v")])

-----------------------------------------------------------------------------
(* Initial state: the module has just been loaded, no page is being rendered *)

Loaded ==
    /\ now = 0
    /\ categoriesCache = [data |-> Null, timestamp |-> 0]
    /\ categoryCache = EmptyMap
    /\ srvVer = 0
    /\ calls = [c \in Callers |-> Idle]
    /\ ev = NoEvent
    /\ hist = NoHist
    /\ gp = GpIdle
    /\ pg = PgIdle
    /\ od = [status |-> "pending",
             user |-> [pc |-> "mount", order |-> "", write |-> "", status |-> "",
                       reply |-> [success |-> FALSE, status |-> "none"]],
             admin |-> [pc |-> "mount", order |-> "", write |-> "", status |-> "",
                        reply |-> [success |-> FALSE, status |-> "none"]]]

Init ==
    /\ Loaded
    /\ nz = [pc |-> "idle", kind |-> "", data |-> Undefined, out |-> Undefined]
    /\ be = [pc |-> "off"]
    /\ ui = [at |-> "off"]

-----------------------------------------------------------------------------
(* The network and the server, as the client's fetch sees them *)

\* The versions of the server's data a read issued at version ver can be
\* answered with: the server handles the request at some moment between the
\* request and the response.
ServedVersions(ver) == ver..srvVer

\* What `await fetch(...)` and `await response.json()` can produce for a read.
ReadReplies(op, key, ver) ==
    {Failure} \cup
    (CASE op = "getAll" ->
            {Body(TRUE, List(ServerCategories(v))) : v \in ServedVersions(ver)}
              \cup {Body(FALSE, Null)}
       [] op = "getBySlug" -> {Body(TRUE, ServerBySlug(key, v)) : v \in ServedVersions(ver)}
       [] op = "getById" -> {Body(TRUE, ServerById(key, v)) : v \in ServedVersions(ver)})

-----------------------------------------------------------------------------
(* categoryApi.getAll *)

\* getAll up to its first await: the cache check, then fetch(`${baseUrl}/categories`)
getAll(c) ==
    /\ calls[c].pc = "idle"
    /\ IF AllCacheHit
          THEN /\ ev' = Return(c, "getAll", "", "hit", FALSE, categoriesCache.data, 0)
               /\ UNCHANGED calls
          ELSE /\ calls' = [calls EXCEPT ![c] = SentRead("getAll", "")]
               /\ ev' = Started(c, "getAll", "")
    /\ hist' = ReadStarted
    /\ UNCHANGED <<now, categoriesCache, categoryCache, srvVer>>
    /\ UNCHANGED OutsideCache

\* getAll from the response on: normalise, store, return; or the catch block
getAllResume(c) ==
    /\ calls[c].pc = "sent"
    /\ calls[c].op = "getAll"
    /\ \E reply \in ReadReplies("getAll", "", calls[c].ver) :
         LET categories == IF reply.kind = "ok" /\ reply.success /\ reply.data.tag = "list"
                             THEN reply.data
                             ELSE List(<<>>)
         IN  IF reply.kind = "ok"
               THEN /\ categoriesCache' = StoredSnapshot(categories)
                    /\ ev' = Return(c, "getAll", "", "ok", FALSE, categories, 1)
                    /\ hist' = FetchStored(categories, 1)
               ELSE /\ ev' = Return(c, "getAll", "", "fail", FALSE, GetAllOnError(categoriesCache), 1)
                    /\ UNCHANGED <<categoriesCache, hist>>
    /\ calls' = [calls EXCEPT ![c] = Idle]
    /\ UNCHANGED <<now, categoryCache, srvVer>>
    /\ UNCHANGED OutsideCache

-----------------------------------------------------------------------------
(* categoryApi.getBySlug and categoryApi.getById *)

\* The part the two keyed reads share: the cache check on categoryCache.get(key).
KeyedStart(c, op, key) ==
    /\ calls[c].pc = "idle"
    /\ IF KeyCacheHit(key)
          THEN /\ ev' = Return(c, op, key, "hit", FALSE, MapGet(categoryCache, key).data, 0)
               /\ UNCHANGED calls
          ELSE /\ calls' = [calls EXCEPT ![c] = SentRead(op, key)]
               /\ ev' = Started(c, op, key)
    /\ hist' = ReadStarted
    /\ UNCHANGED <<now, categoriesCache, categoryCache, srvVer>>
    /\ UNCHANGED OutsideCache

\* KeyedResume with a second attempt: a failed request is sent again
KeyedResumeRetry(c, op) ==
    /\ calls[c].pc = "sent"
    /\ calls[c].op = op
    /\ LET key == calls[c].key
       IN  \E reply \in ReadReplies(op, key, calls[c].ver) :
             IF reply.kind = "ok"
               THEN /\ calls' = [calls EXCEPT ![c] = Idle]
                    /\ IF reply.success /\ Truthy(reply.data)
                         THEN /\ categoryCache' = MapSet(categoryCache, key, Entry(reply.data, DateNow))
                              /\ ev' = Return(c, op, key, "ok", FALSE, reply.data, 1)
                         ELSE /\ ev' = Return(c, op, key, "ok", FALSE, Null, 1)
                              /\ UNCHANGED categoryCache
               ELSE /\ calls' = [calls EXCEPT ![c] = SentRead(op, key)]
                    /\ ev' = Started(c, op, key)
                    /\ UNCHANGED categoryCache
    /\ UNCHANGED <<now, categoriesCache, srvVer, hist>>
    /\ UNCHANGED OutsideCache

\* The part the two keyed reads share from the response on.
KeyedResume(c, op) ==
    /\ calls[c].pc = "sent"
    /\ calls[c].op = op
    /\ LET key == calls[c].key
       IN  \E reply \in ReadReplies(op, key, calls[c].ver) :
             IF reply.kind = "ok"
               THEN IF reply.success /\ Truthy(reply.data)
                      THEN /\ categoryCache' = MapSet(categoryCache, key, Entry(reply.data, DateNow))
                           /\ ev' = Return(c, op, key, "ok", FALSE, reply.data, 1)
                      ELSE /\ ev' = Return(c, op, key, "ok", FALSE, Null, 1)
                           /\ UNCHANGED categoryCache
               ELSE /\ ev' = Return(c, op, key, "fail", FALSE, Null, 1)
                    /\ UNCHANGED categoryCache
    /\ calls' = [calls EXCEPT ![c] = Idle]
    /\ UNCHANGED <<now, categoriesCache, srvVer, hist>>
    /\ UNCHANGED OutsideCache

getBySlug(c, slug) == KeyedStart(c, "getBySlug", slug)

getBySlugResume(c) == KeyedResume(c, "getBySlug")

getById(c, id) == KeyedStart(c, "getById", id)

getByIdResume(c) == KeyedResume(c, "getById")

-----------------------------------------------------------------------------
(* categoryApi.create, update and delete *)

\* A write up to its await: build the payload, fetch with POST, PUT or DELETE.
\* The id of update and delete is part of the URL only.
WriteStart(c, op) ==
    /\ calls[c].pc = "idle"
    /\ srvVer + PendingWrites < MaxWrites
    /\ calls' = [calls EXCEPT ![c] = SentWrite(op)]
    /\ ev' = Started(c, op, "")
    /\ UNCHANGED <<now, categoriesCache, categoryCache, srvVer, hist>>
    /\ UNCHANGED OutsideCache

\* create and update from the response on: clearCache() after response.json(),
\* then the normalised category or null; the catch block rethrows.
WriteResume(c, op) ==
    /\ calls[c].pc = "replied"
    /\ calls[c].op = op
    /\ LET reply == calls[c].reply
       IN  IF reply.kind = "ok"
             THEN /\ categoriesCache' = ClearedSnapshot(categoriesCache)
                  /\ categoryCache' = ClearedMap(categoryCache)
                  /\ ev' = Return(c, op, "", "ok", FALSE,
                                  IF reply.success /\ Truthy(reply.data) THEN reply.data ELSE Null, 1)
                  /\ hist' = WriteSucceeded
             ELSE /\ ev' = Return(c, op, "", "fail", TRUE, Null, 1)
                  /\ UNCHANGED <<categoriesCache, categoryCache, hist>>
    /\ calls' = [calls EXCEPT ![c] = Idle]
    /\ UNCHANGED <<now, srvVer>>
    /\ UNCHANGED OutsideCache

create(c) == WriteStart(c, "create")

createResume(c) == WriteResume(c, "create")

update(c) == WriteStart(c, "update")

updateResume(c) == WriteResume(c, "update")

delete(c) == WriteStart(c, "delete")

\* delete from the response on: clearCache(), then result?.success === true;
\* the catch block returns false.
deleteResume(c) ==
    /\ calls[c].pc = "replied"
    /\ calls[c].op = "delete"
    /\ LET reply == calls[c].reply
       IN  IF reply.kind = "ok"
             THEN /\ categoriesCache' = ClearedSnapshot(categoriesCache)
                  /\ categoryCache' = ClearedMap(categoryCache)
                  /\ ev' = Return(c, "delete", "", "ok", FALSE, Bool(reply.success), 1)
                  /\ hist' = WriteSucceeded
             ELSE /\ ev' = Return(c, "delete", "", "fail", FALSE, Bool(FALSE), 1)
                  /\ UNCHANGED <<categoriesCache, categoryCache, hist>>
    /\ calls' = [calls EXCEPT ![c] = Idle]
    /\ UNCHANGED <<now, srvVer>>
    /\ UNCHANGED OutsideCache

\* The request of a write reaches the server or is lost: it is applied and
\* answered 2xx, applied with the response lost, refused, or never arrives.
ServeWrite(c) ==
    /\ calls[c].pc = "sent"
    /\ calls[c].op \in Writes
    /\ \E applied \in BOOLEAN :
          /\ srvVer' = IF applied THEN srvVer + 1 ELSE srvVer
          /\ \E reply \in IF applied
                             THEN {Body(TRUE, Category("k1", "k2", srvVer + 1)), Failure}
                             ELSE {Body(FALSE, Null), Failure} :
                calls' = [calls EXCEPT ![c] = Replied(calls[c].op, reply)]
    /\ ev' = NoEvent
    /\ UNCHANGED <<now, categoriesCache, categoryCache, hist>>
    /\ UNCHANGED OutsideCache

\* Date.now() advances.
Tick ==
    /\ now < MaxTicks
    /\ now' = now + 1
    /\ ev' = NoEvent
    /\ UNCHANGED <<categoriesCache, categoryCache, srvVer, calls, hist>>
    /\ UNCHANGED OutsideCache

Next ==
    \/ \E c \in Callers : getAll(c)
    \/ \E c \in Callers : getAllResume(c)
    \/ \E c \in Callers, k \in Keys : getBySlug(c, k)
    \/ \E c \in Callers : getBySlugResume(c)
    \/ \E c \in Callers, k \in Keys : getById(c, k)
    \/ \E c \in Callers : getByIdResume(c)
    \/ \E c \in Callers : create(c)
    \/ \E c \in Callers : createResume(c)
    \/ \E c \in Callers : update(c)
    \/ \E c \in Callers : updateResume(c)
    \/ \E c \in Callers : delete(c)
    \/ \E c \in Callers : deleteResume(c)
    \/ \E c \in Callers : ServeWrite(c)
    \/ Tick

Spec == Init /\ [][Next]_vars

-----------------------------------------------------------------------------
(* Properties of the category cache, checked under Spec *)

CacheEmpty == categoriesCache.data = Null /\ DOMAIN categoryCache = {}

\* This step is the return (or throw) of a call of one of ops.
Returns(ops) == ev'.kind = "return" /\ ev'.op \in ops

\* This step is a call of one of ops running up to its return from the cache
\* or up to its fetch.
Starts(ops) ==
    /\ ev'.op \in ops
    /\ \/ ev'.kind = "start"
       \/ ev'.kind = "return" /\ ev'.how = "hit"

\* This step answered a call from the cache.
AnsweredFromCache == ev'.kind = "return" /\ ev'.how = "hit"

\* This step left some caller suspended at the fetch of op.
IssuedFetch(op) ==
    \E c \in Callers : calls[c].pc = "idle" /\ calls'[c].pc = "sent" /\ calls'[c].op = op

\* C1, as claimed: whenever create, update or delete returns or throws, the
\* snapshot is null and the keyed map is empty.
CacheEmptyAfterAnyWrite == [][Returns(Writes) => CacheEmpty']_vars

\* C1, amended: when create, update or delete returns after a 2xx response
\* with a readable body, the snapshot is null and the keyed map is empty; when
\* the request failed (create and update throw, delete returns false) the
\* snapshot and the keyed map are what they were.
CacheEmptyAfterSuccessfulWrite ==
    [][Returns(Writes) =>
         IF ev'.how = "ok"
           THEN CacheEmpty'
           ELSE UNCHANGED <<categoriesCache, categoryCache>>]_vars

\* C1 witness: a write has just returned successfully, and its clearCache
\* dropped a snapshot and a keyed entry.
WriteClearedCache ==
    /\ ev.kind = "return" /\ ev.op \in Writes /\ ev.how = "ok"
    /\ hist.clearedBoth
    /\ CacheEmpty

\* C2: the first read that starts after a write has completed goes to the
\* network; it is not answered from the cache.
FirstReadAfterWriteFetches ==
    [][hist.writeSinceRead /\ Starts(Reads) => ~AnsweredFromCache /\ IssuedFetch(ev'.op)]_vars

\* C3: a read is answered from the cache, with no network request, exactly
\* when an entry for its lookup is cached and now - timestamp < 5 minutes;
\* otherwise it issues a fetch.
CacheAnswersExactlyWhenFresh ==
    [][/\ Starts({"getAll"}) =>
            (AnsweredFromCache <=>
               /\ categoriesCache.data # Null
               /\ now * TickMs - categoriesCache.timestamp < 5 * 60 * 1000)
       /\ Starts({"getBySlug", "getById"}) =>
            (AnsweredFromCache <=>
               /\ ev'.key \in DOMAIN categoryCache
               /\ now * TickMs - categoryCache[ev'.key].timestamp < 5 * 60 * 1000)
       /\ Starts(Reads) =>
            IF AnsweredFromCache
              THEN /\ ev'.reqs = 0
                   /\ calls' = calls
                   /\ ev'.result = IF ev'.op = "getAll" THEN categoriesCache.data
                                                        ELSE categoryCache[ev'.key].data
              ELSE IssuedFetch(ev'.op)]_vars

\* C3 witness: a keyed read has just gone to the network although an entry
\* for its key is cached, because the entry is exactly 5 minutes old.
RefetchedAtFiveMinutes ==
    /\ ev.kind = "start" /\ ev.op \in {"getBySlug", "getById"}
    /\ ev.key \in DOMAIN categoryCache
    /\ now * TickMs - categoryCache[ev.key].timestamp = CACHE_DURATION

\* C4: when its fetch fails, getAll does not throw; it returns the cached
\* snapshot when there is one, however old, and the empty list when there is
\* none; getAll never throws.
GetAllFailureServesSnapshot ==
    [][Returns({"getAll"}) =>
         /\ ~ev'.threw
         /\ ev'.how = "fail" =>
              /\ ev'.result = IF categoriesCache.data # Null THEN categoriesCache.data
                                                             ELSE List(<<>>)
              /\ UNCHANGED categoriesCache]_vars

\* C4 witness: a failed getAll has just returned a snapshot that is 5 minutes
\* old or older.
StaleSnapshotServed ==
    /\ ev.kind = "return" /\ ev.op = "getAll" /\ ev.how = "fail"
    /\ categoriesCache.data # Null
    /\ ev.result = categoriesCache.data
    /\ DateNow - categoriesCache.timestamp >= CACHE_DURATION

\* This step is a getAll whose fetch failed, less than 5 minutes after the
\* latest successful getAll fetch.
FailsSoonAfterFetch ==
    /\ Returns({"getAll"}) /\ ev'.how = "fail"
    /\ hist.okHas
    /\ DateNow - hist.okTime < CACHE_DURATION

\* C5, as claimed: a getAll that fails less than 5 minutes after a successful
\* getAll fetch returns the snapshot that fetch stored, whatever happened in
\* between.
FailedGetAllServesEarlierSnapshot ==
    [][FailsSoonAfterFetch => ev'.result = hist.okSnap]_vars

\* C5, amended: such a getAll returns the snapshot the latest successful fetch
\* stored provided no create, update or delete has succeeded since that
\* fetch; if one has, the snapshot is gone and getAll returns the empty list.
FailedGetAllServesSnapshotUnlessCleared ==
    [][FailsSoonAfterFetch =>
         ev'.result = IF hist.writeSinceOk THEN List(<<>>) ELSE hist.okSnap]_vars

\* C5 witness: a failed getAll has just returned the categories fetched less
\* than 5 minutes before, no write having succeeded in between.
EarlierSnapshotServed ==
    /\ ev.kind = "return" /\ ev.op = "getAll" /\ ev.how = "fail"
    /\ hist.okHas /\ ~hist.writeSinceOk
    /\ DateNow - hist.okTime < CACHE_DURATION
    /\ ev.result = hist.okSnap
    /\ hist.okSnap.items # <<>>

-----------------------------------------------------------------------------
(* The products endpoint, as getProducts' fetch sees it *)

Max(a, b) == IF a >= b THEN a ELSE b
Min(a, b) == IF a <= b THEN a ELSE b

\* The endpoint's page count: ceil(total / limit), at least 1
ServerTotalPages(total, limit) == Max(1, (total + limit - 1) \div limit)

\* The page the endpoint serves: the one asked for, the first one when the
\* page parameter is not a page number
ServerPage(page) == IF ~page.nan /\ page.n >= 1 THEN page.n ELSE 1

\* The products of one page, by their rank in the listing
ServerProducts(total, page, limit) ==
    [i \in 1..Max(0, Min(limit, total - (page - 1) * limit)) |-> (page - 1) * limit + i]

\* What may come back for a list query: a failure (network error, non-2xx
\* status, unreadable body), success false, a page of the listing with its
\* counts, or the bare array of a listing that fits one page.
ProductReplies(params) ==
    LET limit == params.limit.n
        page == ServerPage(params.page)
    IN  {Failure, Body(FALSE, Null)}
          \cup { Body(TRUE, Paged(ServerProducts(total, page, limit), Num(total),
                                  Num(ServerTotalPages(total, limit)))) : total \in Totals }
          \cup { Body(TRUE, List(ServerProducts(total, 1, limit))) :
                   total \in { t \in Totals : t <= limit } }

\* getProducts from the response on: the result, or the catch block's result
getProductsResume ==
    /\ gp.pc = "sent"
    /\ \E reply \in ProductReplies(gp.params) :
         gp' = IF reply.kind = "ok"
                 THEN GpDone(gp, "ok", getProductsResult(gp.params, reply))
                 ELSE GpDone(gp, "fail", getProductsOnError)
    /\ UNCHANGED pg
    /\ UNCHANGED OutsidePages

\* sortBy.includes('desc') ? 'desc' : 'asc'
SortOrder(sortBy) == IF Includes(sortBy, Desc) THEN "desc" ELSE "asc"

\* The numbered links 1..min(5, totalPages)
FirstPages(totalPages) == [i \in 1..Min(5, totalPages.n) |-> Num(i)]

Numbers(pages) == { pages[i] : i \in { j \in DOMAIN pages : "nan" \in DOMAIN pages[j] } }

-----------------------------------------------------------------------------
(* /products: ProductsPage with the three second timeout *)

\* Up to the await of the prefetched categories
ProductsPage(pageParam, sortParam) ==
    /\ pg.pc = "idle"
    /\ pg' = [PgIdle EXCEPT !.pc = "categories", !.route = "products",
                            !.page = parseInt(OrString(pageParam, <<"1">>)),
                            !.sortBy = OrString(sortParam, CreatedAt)]
    /\ UNCHANGED gp
    /\ UNCHANGED OutsidePages

\* The categories are in (prefetchData returns when categoryApi.getAll does,
\* which with an empty cache is when its request is answered or fails): the
\* list query is issued and raced with the timer
ProductsPageProducts ==
    /\ pg.pc = "categories"
    /\ pg.route = "products"
    /\ gp' = GpSent(Params(pg.page, Num(PageLimit), pg.sortBy, SortOrder(pg.sortBy)))
    /\ pg' = [pg EXCEPT !.pc = "products", !.categories = TRUE]
    /\ UNCHANGED OutsidePages

\* The pagination block of /products
ProductsPageView(page, data) ==
    LET totalPages == data.totalPages
        shown == IF Gt(totalPages, Num(5))
                   THEN FirstPages(totalPages) \o <<[dots |-> TRUE], totalPages>>
                   ELSE FirstPages(totalPages)
    IN  IF Gt(totalPages, Num(1))
          THEN View(totalPages, page, TRUE, shown, Numbers(shown), FALSE)
          ELSE View(totalPages, page, FALSE, <<>>, {}, FALSE)

\* The list query settled first
ProductsPageRender ==
    /\ pg.pc = "products"
    /\ pg.route = "products"
    /\ gp.pc = "done"
    /\ pg' = [pg EXCEPT !.pc = "rendered", !.data = gp.result,
                        !.view = ProductsPageView(pg.page, gp.result)]
    /\ UNCHANGED gp
    /\ UNCHANGED OutsidePages

ProductsPageTimeoutNoPages ==
    /\ pg.pc = "products"
    /\ pg.route = "products"
    /\ gp.pc = "sent"
    /\ LET data == ProductsResult(<<>>, Num(0), Num(0), Num(1), Num(12))
       IN  pg' = [pg EXCEPT !.pc = "rendered", !.data = data,
                            !.view = ProductsPageView(pg.page, data)]
    /\ UNCHANGED gp
    /\ UNCHANGED OutsidePages

\* The timer fired first (3000 ms after the race began, the list query not
\* having settled): the page renders the timer's empty result
ProductsPageTimeout ==
    /\ pg.pc = "products"
    /\ pg.route = "products"
    /\ gp.pc = "sent"
    /\ LET data == ProductsResult(<<>>, Num(0), Num(1), Num(1), Num(12))
       IN  pg' = [pg EXCEPT !.pc = "rendered", !.data = data,
                            !.view = ProductsPageView(pg.page, data)]
    /\ UNCHANGED gp
    /\ UNCHANGED OutsidePages

-----------------------------------------------------------------------------
(* The products catalog: ProductsPage with generateVisiblePages *)

Ellipsis == [dots |-> TRUE]

\* generateVisiblePages with the first window kept up to page 6
generateVisiblePagesLateWindow(current, total) ==
    IF Le(total, Num(7))
      THEN [i \in 1..total.n |-> Num(i)]
    ELSE IF Le(current, Num(6))
      THEN [i \in 1..5 |-> Num(i)] \o <<Ellipsis, total>>
    ELSE IF Ge(current, Plus(total, -3))
      THEN <<Num(1), Ellipsis>> \o [i \in 1..5 |-> Plus(total, i - 5)]
    ELSE <<Num(1), Ellipsis, Plus(current, -1), current, Plus(current, 1), Ellipsis, total>>
\* function generateVisiblePages(current, total)
generateVisiblePages(current, total) ==
    IF Le(total, Num(7))
      THEN [i \in 1..total.n |-> Num(i)]
    ELSE IF Le(current, Num(4))
      THEN [i \in 1..5 |-> Num(i)] \o <<Ellipsis, total>>
    ELSE IF Ge(current, Plus(total, -3))
      THEN <<Num(1), Ellipsis>> \o [i \in 1..5 |-> Plus(total, i - 5)]
    ELSE <<Num(1), Ellipsis, Plus(current, -1), current, Plus(current, 1), Ellipsis, total>>

\* Up to the await of Promise.all: both requests are issued
AllProductsPage(pageParam, sortParam) ==
    /\ pg.pc = "idle"
    /\ LET page == MathMax(Num(1), parseInt(OrString(pageParam, <<"1">>)))
           sortBy == OrString(sortParam, CreatedAt)
       IN  /\ pg' = [PgIdle EXCEPT !.pc = "products", !.route = "catalog",
                                   !.page = page, !.sortBy = sortBy]
           /\ gp' = GpSent(Params(page, Num(PageLimit), Replace(sortBy, DashDesc, <<>>),
                                  SortOrder(sortBy)))
    /\ UNCHANGED OutsidePages

\* categoryApi.getAll settled (it returns a list on every path)
AllProductsPageCategories ==
    /\ pg.pc = "products"
    /\ pg.route = "catalog"
    /\ ~pg.categories
    /\ pg' = [pg EXCEPT !.categories = TRUE]
    /\ UNCHANGED gp
    /\ UNCHANGED OutsidePages

\* The pagination block of the catalog
AllProductsPageView(page, data) ==
    LET totalPages == MathCeilDiv(data.total, PageLimit)
        currentPage == MathMin(page, totalPages)
        visiblePages == generateVisiblePages(currentPage, totalPages)
        previous == IF Gt(currentPage, Num(1)) THEN {Plus(currentPage, -1)} ELSE {}
        next == IF Lt(currentPage, totalPages) THEN {Plus(currentPage, 1)} ELSE {}
    IN  IF Gt(totalPages, Num(1))
          THEN View(totalPages, currentPage, TRUE, visiblePages,
                    previous \cup Numbers(visiblePages) \cup next, FALSE)
          ELSE View(totalPages, currentPage, FALSE, visiblePages, {}, FALSE)

\* Both requests settled
AllProductsPageRender ==
    /\ pg.pc = "products"
    /\ pg.route = "catalog"
    /\ pg.categories
    /\ gp.pc = "done"
    /\ pg' = [pg EXCEPT !.pc = "rendered", !.data = gp.result,
                        !.view = AllProductsPageView(pg.page, gp.result)]
    /\ UNCHANGED gp
    /\ UNCHANGED OutsidePages

-----------------------------------------------------------------------------
(* The client products list: loadProducts and the infinite scroll *)

\* loadProducts up to its await
loadProducts(pageNum, sortBy) ==
    GpSent(Params(pageNum, Num(12), sortBy, IF sortBy = PriceDesc THEN "desc" ELSE "asc"))

\* The component mounts: loadProducts(1, true) with the default filters
ClientProductsPage ==
    /\ pg.pc = "idle"
    /\ pg' = [PgIdle EXCEPT !.pc = "products", !.route = "client", !.sortBy = CreatedAt]
    /\ gp' = loadProducts(Num(1), CreatedAt)
    /\ UNCHANGED OutsidePages

\* loadProducts from the result on (getProducts having returned)
loadProductsResume ==
    /\ pg.pc = "products"
    /\ pg.route = "client"
    /\ gp.pc = "done"
    /\ LET reset == StrictEq(gp.params.page, Num(1))
           products == IF reset THEN gp.result.products
                       ELSE pg.data.products \o gp.result.products
       IN  pg' = [pg EXCEPT !.pc = "rendered",
                            !.data = [gp.result EXCEPT !.products = products],
                            !.view = View(gp.result.totalPages, gp.params.page, FALSE, <<>>,
                                          {}, Lt(gp.params.page, gp.result.totalPages))]
    /\ UNCHANGED gp
    /\ UNCHANGED OutsidePages

\* The sort select changes: loadProducts is rebuilt and run as loadProducts(1, true)
SelectSort(sortBy) ==
    /\ pg.pc = "rendered"
    /\ pg.route = "client"
    /\ sortBy # pg.sortBy
    /\ pg' = [pg EXCEPT !.pc = "products", !.sortBy = sortBy]
    /\ gp' = loadProducts(Num(1), sortBy)
    /\ UNCHANGED OutsidePages

\* The sentinel scrolls into view: the next page is loaded and appended
LoadMore ==
    /\ pg.pc = "rendered"
    /\ pg.route = "client"
    /\ pg.view.hasMore
    /\ pg.page.n < MaxLoads
    /\ pg' = [pg EXCEPT !.pc = "products", !.page = Plus(pg.page, 1)]
    /\ gp' = loadProducts(Plus(pg.page, 1), pg.sortBy)
    /\ UNCHANGED OutsidePages

-----------------------------------------------------------------------------
(* /categories/[slug]: CategoryPage and ProductsContent *)

\* Up to the await of categoryApi.getBySlug
CategoryPage ==
    /\ pg.pc = "idle"
    /\ pg' = [PgIdle EXCEPT !.pc = "categories", !.route = "category"]
    /\ UNCHANGED gp
    /\ UNCHANGED OutsidePages

\* The category is in: notFound() when it is missing or inactive; otherwise the
\* search parameters are parsed and, the category list and the product count
\* fetched (neither call throws), ProductsContent issues the list query.
CategoryPageResume(found, pageParam, sortParam) ==
    /\ pg.pc = "categories"
    /\ pg.route = "category"
    /\ IF ~found
         THEN /\ pg' = [pg EXCEPT !.pc = "notFound"]
              /\ UNCHANGED gp
         ELSE LET page == parseInt(OrString(pageParam, <<"1">>))
                  sortBy == OrString(sortParam, CreatedAt)
              IN  /\ pg' = [pg EXCEPT !.pc = "products", !.categories = TRUE,
                                      !.page = page, !.sortBy = sortBy]
                  /\ gp' = GpSent(Params(page, Num(12),
                                         IF sortBy = PriceDesc THEN Price ELSE sortBy,
                                         SortOrder(sortBy)))
    /\ UNCHANGED OutsidePages

\* .catch(() => ({ products: [], total: 0, totalPages: 0 }))
ProductsContentOnError == [products |-> <<>>, total |-> Num(0), totalPages |-> Num(0)]

\* What ProductsContent draws: the empty state, or the grid and its pagination
ProductsContentView(page, productsData) ==
    LET totalPages == productsData.totalPages
        shown == FirstPages(totalPages)
        previous == IF Gt(page, Num(1)) THEN {Plus(page, -1)} ELSE {}
        next == IF Lt(page, totalPages) THEN {Plus(page, 1)} ELSE {}
    IN  IF Len(productsData.products) # 0 /\ Gt(totalPages, Num(1))
          THEN View(totalPages, page, TRUE, shown, previous \cup Numbers(shown) \cup next, FALSE)
          ELSE View(totalPages, page, FALSE, <<>>, {}, FALSE)

\* ProductsContent from the result of the list query on
ProductsContent ==
    /\ pg.pc = "products"
    /\ pg.route = "category"
    /\ gp.pc = "done"
    /\ LET productsData == IF gp.threw THEN ProductsContentOnError ELSE gp.result
       IN  pg' = [pg EXCEPT !.pc = "rendered", !.data = productsData,
                            !.view = ProductsContentView(pg.page, productsData)]
    /\ UNCHANGED gp
    /\ UNCHANGED OutsidePages

-----------------------------------------------------------------------------
(* The listing pages together *)

NextPages ==
    \/ \E p \in PageParams, s \in SortParams : ProductsPage(p, s)
    \/ ProductsPageProducts
    \/ ProductsPageRender
    \/ ProductsPageTimeout
    \/ \E p \in PageParams, s \in SortParams : AllProductsPage(p, s)
    \/ AllProductsPageCategories
    \/ AllProductsPageRender
    \/ ClientProductsPage
    \/ loadProductsResume
    \/ \E s \in SortKeys : SelectSort(s)
    \/ LoadMore
    \/ CategoryPage
    \/ \E found \in BOOLEAN, p \in PageParams, s \in SortParams : CategoryPageResume(found, p, s)
    \/ ProductsContent
    \/ getProductsResume

SpecPages == Init /\ [][NextPages]_vars

-----------------------------------------------------------------------------
(* Properties of the list query and the listing pages, checked under SpecPages *)

\* C7: productApi.getProducts never raises to its caller, and when the backing
\* request fails (network error, non-2xx status, unreadable body) what it
\* returns is the empty result: no products, total 0, totalPages 1.
GetProductsFailureGivesEmptyResult ==
    gp.pc = "done" =>
        /\ ~gp.threw
        /\ gp.outcome = "fail" =>
             /\ gp.result.products = <<>>
             /\ gp.result.total = Num(0)
             /\ gp.result.totalPages = Num(1)

\* C7 happens: a list query has failed and getProducts has returned
GetProductsFailed == gp.pc = "done" /\ gp.outcome = "fail"

\* C8: wherever a pagination block is drawn, the current page it works with
\* is a number in 1..totalPages, whatever the page parameter and the total.
PaginationPageInRange ==
    (pg.pc = "rendered" /\ pg.view.paginated) =>
        /\ Ge(pg.view.currentPage, Num(1))
        /\ Le(pg.view.currentPage, pg.view.totalPages)

\* C9: the totalPages the list query returns, and the totalPages a listing
\* page works with, is max(1, ceil(total / limit)); it is never 0.
TotalPagesIsCeiling ==
    /\ gp.pc = "done" =>
         gp.result.totalPages
           = Num(Max(1, (gp.result.total.n + gp.result.limit.n - 1) \div gp.result.limit.n))
    /\ pg.pc = "rendered" =>
         pg.view.totalPages = Num(Max(1, (pg.data.total.n + PageLimit - 1) \div PageLimit))

\* C10: on every listing path the key price-desc is sent as sort field price
\* with direction desc, and every other key is sent unchanged as the sort
\* field, with a direction.
SortKeyTranslated ==
    gp.pc # "idle" =>
        IF pg.sortBy = PriceDesc
          THEN gp.params.sortBy = Price /\ gp.params.sortOrder = "desc"
          ELSE gp.params.sortBy = pg.sortBy /\ gp.params.sortOrder \in {"asc", "desc"}

-----------------------------------------------------------------------------
(* Normalization of one record *)

\* A record has come in and is about to be normalized: null, undefined, or
\* for any subset of the fields a record holding just those fields, each with
\* a set value, each with a valid falsy value, or each null.
InitNormalize ==
    LET Fields(kind) ==
            IF kind = "product"
              THEN {"_id", "id", "name", "slug", "description", "price", "sku", "stock",
                    "tags", "isActive", "isFeatured", "isBestSeller", "images",
                    "createdAt", "updatedAt"}
              ELSE {"_id", "id", "name", "slug", "description", "image", "parentId",
                    "isActive", "createdAt", "updatedAt", "__v"}
        Value(f, pattern) ==
            IF pattern = "null" THEN Null
            ELSE IF f \in {"price", "stock", "__v"}
              THEN Num(IF pattern = "set" THEN 5 ELSE 0)
            ELSE IF f \in {"tags", "images"}
              THEN List(IF pattern = "set" THEN <<Str(f)>> ELSE <<>>)
            ELSE IF f \in {"isActive", "isFeatured", "isBestSeller"}
              THEN Bool(pattern = "set")
            ELSE IF f = "image"
              THEN IF pattern = "set"
                     THEN Obj([url |-> Str("url"), publicId |-> Str("publicId")])
                     ELSE Str("url")
            ELSE IF f \in {"name", "slug", "description", "sku", "parentId"}
              THEN Str(IF pattern = "set" THEN f ELSE "")
            ELSE Str(f)
        Input(kind, data) == [pc |-> "input", kind |-> kind, data |-> data, out |-> Undefined]
    IN  /\ Loaded
        /\ be = [pc |-> "off"]
        /\ ui = [at |-> "off"]
        /\ \E kind \in {"product", "category"} :
              \/ \E data \in {Null, Undefined} : nz = Input(kind, data)
              \/ \E present \in SUBSET Fields(kind), pattern \in {"set", "zero", "null"} :
                    nz = Input(kind, Obj([f \in present |-> Value(f, pattern)]))

\* products.map(p => this.normalizeProduct(p)), this.normalizeProduct(result.data)
ProductNormalized ==
    /\ nz.pc = "input"
    /\ nz.kind = "product"
    /\ nz' = [nz EXCEPT !.pc = "output", !.out = normalizeProduct(nz.data)]
    /\ UNCHANGED OutsideNormalize

\* result.data.map(cat => this.normalizeCategory(cat)), this.normalizeCategory(result.data)
CategoryNormalized ==
    /\ nz.pc = "input"
    /\ nz.kind = "category"
    /\ nz' = [nz EXCEPT !.pc = "output", !.out = normalizeCategory(nz.data)]
    /\ UNCHANGED OutsideNormalize

NextNormalize ==
    \/ ProductNormalized
    \/ CategoryNormalized

SpecNormalize == InitNormalize /\ [][NextNormalize]_vars

-----------------------------------------------------------------------------
(* Properties of normalization, checked under SpecNormalize *)

\* The fields the property is about hold in a normalized record
RequiredFields(kind) ==
    {"id", "_id", "name", "slug", "description", "isActive"}
      \cup IF kind = "product"
             THEN {"price", "sku", "stock", "tags", "images", "createdAt", "updatedAt"}
             ELSE {}

\* The record lacks the field: it is null or undefined, or has no such property
Missing(data, f) == data.tag # "object" \/ Get(data, f) = Undefined

\* C11: normalizing any partial or null product or category record gives an
\* object, never null or undefined, in which no required field is undefined
\* and isActive is true unless the record's isActive is exactly false.
NormalizedIsComplete ==
    nz.pc = "output" =>
        /\ nz.out.tag = "object"
        /\ \A f \in RequiredFields(nz.kind) : Get(nz.out, f) # Undefined
        /\ Get(nz.out, "isActive")
             = Bool(~(nz.data.tag = "object" /\ Get(nz.data, "isActive") = Bool(FALSE)))

\* The value is of the type the field declares
ValidValue(f, v) ==
    IF f \in {"price", "stock"} THEN "nan" \in DOMAIN v /\ ~v.nan
    ELSE IF f \in {"tags", "images"} THEN v.tag = "list"
    ELSE IF f \in {"isActive", "isFeatured", "isBestSeller"} THEN v.tag = "bool"
    ELSE v.tag = "string"

\* C12: product normalization turns a missing name, slug, description or sku
\* into '', a missing price or stock into 0, a missing isFeatured or
\* isBestSeller into false, missing tags or images into the empty array, and
\* returns every field that is present with a valid value unchanged.
ProductDefaultsApplied ==
    (nz.pc = "output" /\ nz.kind = "product") =>
        /\ \A f \in {"name", "slug", "description", "sku"} :
             Missing(nz.data, f) => Get(nz.out, f) = Str("")
        /\ \A f \in {"price", "stock"} : Missing(nz.data, f) => Get(nz.out, f) = Num(0)
        /\ \A f \in {"isFeatured", "isBestSeller"} :
             Missing(nz.data, f) => Get(nz.out, f) = Bool(FALSE)
        /\ \A f \in {"tags", "images"} : Missing(nz.data, f) => Get(nz.out, f) = List(<<>>)
        /\ \A f \in RequiredFields("product") \cup {"isFeatured", "isBestSeller"} :
             (~Missing(nz.data, f) /\ ValidValue(f, Get(nz.data, f)))
                => Get(nz.out, f) = Get(nz.data, f)

\* C12 happens: a product record lacking a string, a number, a flag and an
\* array, and holding other fields with valid values, has been normalized
PartialProductNormalized ==
    /\ nz.pc = "output"
    /\ nz.kind = "product"
    /\ nz.data.tag = "object"
    /\ \A f \in {"name", "price", "isFeatured", "tags"} : Missing(nz.data, f)
    /\ \A f \in {"slug", "stock", "isBestSeller", "images", "isActive"} :
         ~Missing(nz.data, f) /\ ValidValue(f, Get(nz.data, f))

-----------------------------------------------------------------------------
(* One order, the user's order page and the admin's order page *)

\* orderStatus, in the order of getStatusOptions
Statuses == <<"pending", "confirmed", "processing", "shipped", "delivered", "cancelled">>

\* A page: where it is (not mounted, loading the order, showing it, awaiting
\* the reply to a write), the orderStatus of the order it holds ("" for none),
\* the write it sent and the status sent with it, and the reply once it is in.
Page(pc, order, write, status, reply) ==
    [pc |-> pc, order |-> order, write |-> write, status |-> status, reply |-> reply]

\* The envelope { success, ... } of a reply, with the order's status as served
Envelope(success, status) == [success |-> success, status |-> status]

NoReply == [success |-> FALSE, status |-> "none"]

\* The page mounts, or a handler calls it after its write: loadOrder up to its await
loadOrder(who) ==
    /\ od[who].pc = "mount"
    /\ od' = [od EXCEPT ![who] = Page("loading", od[who].order, "", "", NoReply)]
    /\ UNCHANGED OutsideOrders

\* GET /orders/:id answers with the order as it is now, or the request fails
\* (getOrder then returns success false)
ServeGetOrder(who) ==
    /\ od[who].pc = "loading"
    /\ od[who].reply = NoReply
    /\ \E reply \in {Envelope(TRUE, od.status), Envelope(FALSE, "")} :
         od' = [od EXCEPT ![who].reply = reply]
    /\ UNCHANGED OutsideOrders

\* loadOrder from the reply on: setOrder, or setError; the handler that called
\* it then clears its busy flag
loadOrderResume(who) ==
    /\ od[who].pc = "loading"
    /\ od[who].reply # NoReply
    /\ od' = [od EXCEPT ![who] =
                IF od[who].reply.success
                  THEN Page("ready", od[who].reply.status, "", "", NoReply)
                  ELSE Page("error", od[who].order, "", "", NoReply)]
    /\ UNCHANGED OutsideOrders

\* The user presses Cancel Order, drawn while the order held is pending, and
\* confirms: cancelOrder up to its await
handleCancelOrder ==
    /\ od.user.pc = "ready"
    /\ od.user.order = "pending"
    /\ od' = [od EXCEPT !.user = Page("writing", od.user.order, "cancelOrder", "", NoReply)]
    /\ UNCHANGED OutsideOrders

\* PUT /orders/:id/cancel: a pending order becomes cancelled, any other order
\* is refused; or the request fails
ServeCancelOrder ==
    /\ od.user.pc = "writing"
    /\ od.user.reply = NoReply
    /\ \/ /\ od.status = "pending"
          /\ od' = [od EXCEPT !.status = "cancelled",
                              !.user.reply = Envelope(TRUE, "cancelled")]
       \/ od' = [od EXCEPT !.user.reply = Envelope(FALSE, "")]
    /\ UNCHANGED OutsideOrders

\* handleCancelOrder from the reply on: reload the order, or alert
handleCancelOrderResume ==
    /\ od.user.pc = "writing"
    /\ od.user.reply # NoReply
    /\ od' = [od EXCEPT !.user =
                IF od.user.reply.success
                  THEN Page("loading", od.user.order, "", "", NoReply)
                  ELSE Page("ready", od.user.order, "", "", NoReply)]
    /\ UNCHANGED OutsideOrders

\* The admin presses one of the status buttons; the one of the status the
\* page holds is disabled
handleUpdateStatus(status) ==
    /\ od.admin.pc = "ready"
    /\ od.admin.order # status
    /\ od' = [od EXCEPT !.admin =
                Page("writing", od.admin.order, "handleUpdateStatus", status, NoReply)]
    /\ UNCHANGED OutsideOrders

\* The admin saves the notes: updateOrderStatus with the status the page holds
handleSaveAdminNotes ==
    /\ od.admin.pc = "ready"
    /\ od' = [od EXCEPT !.admin =
                Page("writing", od.admin.order, "handleSaveAdminNotes", od.admin.order,
                     NoReply)]
    /\ UNCHANGED OutsideOrders

\* PUT /admin/orders/:orderId/status: the order takes the status sent,
\* whatever it was; or the request fails
ServeUpdateOrderStatus ==
    /\ od.admin.pc = "writing"
    /\ od.admin.reply = NoReply
    /\ \/ od' = [od EXCEPT !.status = od.admin.status,
                           !.admin.reply = Envelope(TRUE, od.admin.status)]
       \/ od' = [od EXCEPT !.admin.reply = Envelope(FALSE, "")]
    /\ UNCHANGED OutsideOrders

\* handleUpdateStatus from the reply on: reload the order, or alert
handleUpdateStatusResume ==
    /\ od.admin.pc = "writing"
    /\ od.admin.write = "handleUpdateStatus"
    /\ od.admin.reply # NoReply
    /\ od' = [od EXCEPT !.admin =
                IF od.admin.reply.success
                  THEN Page("loading", od.admin.order, "", "", NoReply)
                  ELSE Page("ready", od.admin.order, "", "", NoReply)]
    /\ UNCHANGED OutsideOrders

\* handleSaveAdminNotes from the reply on: the notes are kept in the order held
handleSaveAdminNotesResume ==
    /\ od.admin.pc = "writing"
    /\ od.admin.write = "handleSaveAdminNotes"
    /\ od.admin.reply # NoReply
    /\ od' = [od EXCEPT !.admin = Page("ready", od.admin.order, "", "", NoReply)]
    /\ UNCHANGED OutsideOrders

NextOrders ==
    \/ \E who \in {"user", "admin"} : loadOrder(who)
    \/ \E who \in {"user", "admin"} : ServeGetOrder(who)
    \/ \E who \in {"user", "admin"} : loadOrderResume(who)
    \/ handleCancelOrder
    \/ ServeCancelOrder
    \/ handleCancelOrderResume
    \/ \E i \in DOMAIN Statuses : handleUpdateStatus(Statuses[i])
    \/ handleSaveAdminNotes
    \/ ServeUpdateOrderStatus
    \/ handleUpdateStatusResume
    \/ handleSaveAdminNotesResume

SpecOrders == Init /\ [][NextOrders]_vars

-----------------------------------------------------------------------------
(* Properties of the order pages, checked under SpecOrders *)

\* C13: a user's cancel request is issued only for an order that is pending
\* at that moment, and takes effect only on an order that is pending at that
\* moment, whatever happened to the order after the user's page loaded it.
CancelOnlyWhilePending ==
    [][/\ (od.user.pc = "ready" /\ od'.user.pc = "writing") => od.status = "pending"
       /\ (od.user.pc = "writing" /\ od.user.reply = NoReply /\ od'.user.reply.success)
            => od.status = "pending"]_vars

\* C14: once the order is delivered or cancelled, no step of the user's page
\* or of the admin's page gives it another status.
TerminalStatusStays ==
    [][od.status \in {"delivered", "cancelled"} => od'.status = od.status]_vars

-----------------------------------------------------------------------------
(* The /products page and time *)

\* The steps the page's own scheduling guarantees: a timer that was set fires,
\* a settled race resumes the page.  No step that waits for the network to
\* answer is among them: a request may stay unanswered forever.
SpecPagesFair ==
    /\ SpecPages
    /\ WF_vars(ProductsPageTimeout)
    /\ WF_vars(ProductsPageRender)

\* C15: on /products the list query races the timer: the page goes on with
\* the result of getProducts when that has settled, and otherwise, the timer
\* having fired, with products [], total 0, totalPages 1, page 1, limit 12;
\* once the page has gone on, a response arriving later changes nothing of it.
TimerRace ==
    [][/\ (pg.route = "products" /\ pg.pc = "products" /\ pg'.pc = "rendered") =>
            pg'.data = IF gp.pc = "done" THEN gp.result
                       ELSE ProductsResult(<<>>, Num(0), Num(1), Num(1), Num(12))
       /\ (pg.route = "products" /\ pg.pc = "rendered") => pg' = pg]_vars

\* C15 happens: the timer fired first, the page was rendered with the empty
\* result, and then the list query came back with products
LateResponseIgnored ==
    /\ pg.route = "products"
    /\ pg.pc = "rendered"
    /\ gp.pc = "done"
    /\ gp.outcome = "ok"
    /\ gp.result.products # <<>>
    /\ pg.data.products = <<>>

\* C16: whatever the network does, a /products page that was requested
\* eventually has its data and is rendered.
ProductsPageFinishes ==
    (pg.route = "products" /\ pg.pc = "categories") ~> (pg.pc = "rendered")

-----------------------------------------------------------------------------
(* Failures of the writes, checked under Spec *)

\* C17: a write (create, update, delete) whose request fails, by a network
\* error or a non-2xx response, throws to its caller.
WritesRethrowFailures ==
    [][(Returns(Writes) /\ ev'.how = "fail") => ev'.threw]_vars

-----------------------------------------------------------------------------
(* The backend server (backend/server.js) *)

\* An origin or a message is a string written as the sequence of its pieces,
\* each piece a run of characters; a trailing slash is a piece of its own.
\* An object's errors and keyPattern are written as the sequence of their
\* entries in insertion order.

\* const allowedOrigins = [ ... , process.env.FRONTEND_URL ].filter(Boolean)
allowedOrigins(FRONTEND_URL) ==
    LET Boolean(v) == v # Undefined /\ v.s # <<>>
    IN  SelectSeq(<<Str(<<"https://artplazza", ".netlify.app">>),
                    Str(<<"http://localhost:300", "0">>),
                    FRONTEND_URL>>,
                  Boolean)

\* corsOrigin without the prefix match
corsOriginExactOnly(origin, allowed) ==
    LET msg == <<"The ", "CORS",
                 " policy for this site does not allow access from the specified Origin: ">>
    IN  IF origin = Undefined \/ origin.s = <<>>
          THEN [err |-> Null, allow |-> TRUE]
        ELSE IF \E i \in 1..Len(allowed) : origin = allowed[i]
          THEN [err |-> Null, allow |-> TRUE]
        ELSE [err |-> Obj([name |-> Str("Error"),
                           message |-> Str(msg \o origin.s),
                           stack |-> Str(<<"Error: ...">>)]),
              allow |-> FALSE]
\* The origin function given to cors(), as what it hands to callback(err, allow)
corsOrigin(origin, allowed) ==
    LET startsWith(s, prefix) ==
            Len(prefix) <= Len(s) /\ SubSeq(s, 1, Len(prefix)) = prefix
        \* allowedOrigin.replace(/\/$/, '')
        replaceSlash(s) ==
            IF s # <<>> /\ s[Len(s)] = "/" THEN SubSeq(s, 1, Len(s) - 1) ELSE s
        msg == <<"The ", "CORS",
                 " policy for this site does not allow access from the specified Origin: ">>
    IN  IF origin = Undefined \/ origin.s = <<>>
          THEN [err |-> Null, allow |-> TRUE]
        ELSE IF \E i \in 1..Len(allowed) :
                  \/ origin = allowed[i]
                  \/ startsWith(origin.s, replaceSlash(allowed[i].s))
          THEN [err |-> Null, allow |-> TRUE]
        ELSE [err |-> Obj([name |-> Str("Error"),
                           message |-> Str(msg \o origin.s),
                           stack |-> Str(<<"Error: ...">>)]),
              allow |-> FALSE]

\* app.use((error, req, res, next) => { ... }): the response it sends
errorHandler(error, NODE_ENV, allowed) ==
    LET message == Get(error, "message")
        hasMessage == message # Undefined /\ message.s # <<>>
        Json(status, body) == [by |-> "errorHandler", status |-> status, body |-> body]
    IN  IF Get(error, "name") = Str("ValidationError")
          THEN LET errors == Get(error, "errors")
               IN  Json(400, [success |-> FALSE,
                              message |-> Str(<<"Validation error">>),
                              errors |-> [i \in DOMAIN errors |-> errors[i].message]])
        ELSE IF Get(error, "code") = Num(11000)
          THEN Json(400, [success |-> FALSE,
                          message |-> Str(<<"Duplicate field value entered">>),
                          field |-> Get(error, "keyPattern")[1]])
        ELSE IF hasMessage /\ Includes(message.s, <<"CORS">>)
          THEN Json(403, [success |-> FALSE,
                          message |-> message,
                          allowedOrigins |-> allowed])
        ELSE LET status == JsOr(Get(error, "statusCode"), Num(500)).n
                 text == IF hasMessage THEN message ELSE Str(<<"Internal server error">>)
             IN  IF NODE_ENV = Str("development")
                   THEN Json(status, [success |-> FALSE, message |-> text,
                                      stack |-> Get(error, "stack")])
                   ELSE Json(status, [success |-> FALSE, message |-> text])

\* app.use('/api/products', productRoutes) and the three mounts after it
Mounts ==
    <<[path |-> <<"api", "products">>, router |-> "productRoutes"],
      [path |-> <<"api", "categories">>, router |-> "categoryRoutes"],
      [path |-> <<"api", "slider">>, router |-> "sliderRoutes"],
      [path |-> <<"api", "auth">>, router |-> "authRoutes"]>>

\* A request has come in.  FRONTEND_URL and NODE_ENV are the process's
\* environment; path is the request's path by segments, router the router
\* module that defines a route for its method and path ("" when none does).
InitServer ==
    LET Netlify == <<"https://artplazza", ".netlify.app">>
        Localhost == <<"http://localhost:300", "0">>
        Shop == <<"https://shop.example">>
        Urls == {Undefined, Str(<<>>), Str(Shop), Str(Shop \o <<"/">>)}
        Origins ==
            {Undefined, Str(<<>>), Str(<<"https://other.example">>)} \cup
            {Str(s) : s \in {Netlify, Localhost, Shop}} \cup
            {Str(s \o <<"/">>) : s \in {Netlify, Localhost, Shop}} \cup
            {Str(s \o <<".evil.example">>) : s \in {Netlify, Localhost, Shop}} \cup
            {Str(<<"https://artplazza">>), Str(<<"http://localhost:300">>),
             Str(<<"http://localhost:300", "1">>)}
        Request(method, path, router) ==
            [method |-> method, path |-> path, router |-> router]
        Requests ==
            {Request("GET", <<"api", "health">>, ""),
             Request("GET", <<"api", "products">>, "productRoutes"),
             Request("GET", <<"api", "categories">>, "categoryRoutes"),
             Request("POST", <<"api", "categories">>, "categoryRoutes"),
             Request("GET", <<"api", "slider">>, "sliderRoutes"),
             Request("POST", <<"api", "auth", "login">>, "authRoutes"),
             Request("POST", <<"api", "orders">>, "orderRoutes"),
             Request("GET", <<"api", "admin", "orders", "stats">>, "adminOrderRoutes"),
             Request("PUT", <<"api", "admin", "orders", "o1", "status">>, "adminOrderRoutes"),
             Request("GET", <<"api", "nothing">>, ""),
             Request("GET", <<"favicon.ico">>, "")}
        Bodies(method) == IF method = "GET" THEN {"none"} ELSE {"json", "malformed"}
    IN  /\ Loaded
        /\ nz = [pc |-> "idle", kind |-> "", data |-> Undefined, out |-> Undefined]
        /\ ui = [at |-> "off"]
        /\ \E url \in Urls, env \in {Undefined, Str("development"), Str("production")},
              origin \in Origins, req \in Requests :
              \E body \in Bodies(req.method) :
                 be = [pc |-> "cors", FRONTEND_URL |-> url, NODE_ENV |-> env,
                       origin |-> origin, method |-> req.method, path |-> req.path,
                       router |-> req.router, body |-> body, allow |-> FALSE,
                       error |-> Undefined,
                       res |-> [by |-> "", status |-> 0, body |-> [success |-> FALSE]]]

\* app.use(cors({ origin: ... })): the request goes on when the origin is
\* allowed, and the error goes to the error handler when it is not
Cors ==
    /\ be.pc = "cors"
    /\ LET answer == corsOrigin(be.origin, allowedOrigins(be.FRONTEND_URL))
       IN  be' = IF answer.allow
                   THEN [be EXCEPT !.pc = "json", !.allow = TRUE]
                   ELSE [be EXCEPT !.pc = "error", !.error = answer.err]
    /\ UNCHANGED OutsideServer

\* app.use(express.json({ limit: '50mb' })): a body that does not parse is an
\* error with statusCode 400
BodyParser ==
    /\ be.pc = "json"
    /\ be' = IF be.body = "malformed"
               THEN [be EXCEPT !.pc = "error",
                               !.error = Obj([name |-> Str("SyntaxError"),
                                              message |-> Str(<<"Unexpected token">>),
                                              statusCode |-> Num(400),
                                              stack |-> Str(<<"SyntaxError: ...">>)])]
               ELSE [be EXCEPT !.pc = "routes"]
    /\ UNCHANGED OutsideServer

\* The routes in the order server.js registers them: the health check, the
\* mounted routers, the 404 handler of '/api/*', and Express's own 404.  A
\* mounted router that has no route for the request passes it on.
Route ==
    /\ be.pc = "routes"
    /\ LET under(prefix) ==
               Len(prefix) <= Len(be.path) /\ SubSeq(be.path, 1, Len(prefix)) = prefix
           Answer(by, status, body) ==
               [be EXCEPT !.pc = "answered",
                          !.res = [by |-> by, status |-> status, body |-> body]]
       IN  be' = IF be.method = "GET" /\ be.path = <<"api", "health">>
                   THEN Answer("health", 200,
                               [success |-> TRUE,
                                allowedOrigins |-> allowedOrigins(be.FRONTEND_URL)])
                 ELSE IF \E i \in 1..Len(Mounts) :
                            under(Mounts[i].path) /\ Mounts[i].router = be.router
                   THEN [be EXCEPT !.pc = "router"]
                 ELSE IF Len(be.path) >= 2 /\ under(<<"api">>)
                   THEN Answer("api404", 404, [success |-> FALSE])
                 ELSE Answer("express404", 404, [success |-> FALSE])
    /\ UNCHANGED OutsideServer

\* The route's middleware and controller: they answer the request, or pass
\* an error to next
RouterResponds ==
    /\ be.pc = "router"
    /\ LET Errors ==
               {Obj([name |-> Str("ValidationError"),
                     message |-> Str(<<"User validation failed">>),
                     errors |-> <<[message |-> Str(<<"Name is required">>)],
                                  [message |-> Str(<<"Price is required">>)]>>,
                     stack |-> Str(<<"ValidationError: ...">>)]),
                Obj([name |-> Str("MongoServerError"),
                     message |-> Str(<<"E11000 duplicate key error">>),
                     code |-> Num(11000),
                     keyPattern |-> <<"slug">>,
                     stack |-> Str(<<"MongoServerError: ...">>)]),
                Obj([name |-> Str("Error"),
                     message |-> Str(<<"Something failed">>),
                     stack |-> Str(<<"Error: ...">>)]),
                Obj([name |-> Str("Error"),
                     message |-> Str(<<"Not found">>),
                     statusCode |-> Num(404),
                     stack |-> Str(<<"Error: ...">>)]),
                Obj([name |-> Str("Error"),
                     stack |-> Str(<<"Error: ...">>)])}
       IN  \/ be' = [be EXCEPT !.pc = "answered",
                               !.res = [by |-> be.router, status |-> 200,
                                        body |-> [success |-> TRUE]]]
           \/ \E error \in Errors : be' = [be EXCEPT !.pc = "error", !.error = error]
    /\ UNCHANGED OutsideServer

\* The error reaches the global error handler
ErrorHandled ==
    /\ be.pc = "error"
    /\ be' = [be EXCEPT !.pc = "answered",
                        !.res = errorHandler(be.error, be.NODE_ENV,
                                             allowedOrigins(be.FRONTEND_URL))]
    /\ UNCHANGED OutsideServer

NextServer ==
    \/ Cors
    \/ BodyParser
    \/ Route
    \/ RouterResponds
    \/ ErrorHandled

SpecServer == InitServer /\ [][NextServer]_vars

-----------------------------------------------------------------------------
(* The backend's answers, checked under SpecServer *)

\* C18: the global error handler answers a Mongoose ValidationError with 400
\* and the field messages, a duplicate-key error (code 11000) with 400 and
\* the offending field, a CORS rejection with 403, and every other error with
\* 500; the stack trace is in the answer only when NODE_ENV is development.
ErrorHandlerAnswers ==
    (be.pc = "answered" /\ be.res.by = "errorHandler") =>
        LET error == be.error
            body == be.res.body
        IN  /\ IF Get(error, "name") = Str("ValidationError")
                 THEN /\ be.res.status = 400
                      /\ "errors" \in DOMAIN body
                      /\ body.errors = [i \in DOMAIN error.fields.errors |->
                                           error.fields.errors[i].message]
               ELSE IF Get(error, "code") = Num(11000)
                 THEN /\ be.res.status = 400
                      /\ "field" \in DOMAIN body
                      /\ body.field = error.fields.keyPattern[1]
               ELSE IF ~be.allow
                 THEN be.res.status = 403
               ELSE be.res.status = 500
            /\ "stack" \in DOMAIN body => be.NODE_ENV = Str("development")

\* C19: the CORS check lets a request through exactly when it has no origin
\* (the header is absent or empty), or its origin equals an entry of the allow
\* list, or begins with an entry whose trailing slash is removed; any other
\* origin is rejected with an error.  The allow list is the two fixed origins
\* and FRONTEND_URL when it is set to a non-empty value.
CorsAcceptsAllowList ==
    be.pc \notin {"off", "cors"} =>
        LET list == {<<"https://artplazza", ".netlify.app">>,
                     <<"http://localhost:300", "0">>} \cup
                    (IF be.FRONTEND_URL \in {Undefined, Str(<<>>)}
                       THEN {}
                       ELSE {be.FRONTEND_URL.s})
            NoSlash(e) == IF e[Len(e)] = "/" THEN SubSeq(e, 1, Len(e) - 1) ELSE e
            Begins(s, e) == \E n \in 0..Len(s) : SubSeq(s, 1, n) = e
            allowed ==
                \/ be.origin \in {Undefined, Str(<<>>)}
                \/ \E e \in list : be.origin.s = e \/ Begins(be.origin.s, NoSlash(e))
        IN  /\ be.allow <=> allowed
            /\ ~be.allow => /\ be.error # Undefined
                            /\ be.res.by \in {"", "errorHandler"}

\* C19 happens: FRONTEND_URL ends with a slash, and a request whose origin
\* begins with that URL less its slash, without being equal to it, was let
\* through to the products router
PrefixOriginAccepted ==
    /\ be.pc = "answered"
    /\ be.FRONTEND_URL = Str(<<"https://shop.example", "/">>)
    /\ be.origin = Str(<<"https://shop.example", ".evil.example">>)
    /\ be.allow
    /\ be.res.by = "productRoutes"

\* C20: a request to a route that a router defines under /api/products,
\* /api/categories, /api/orders, /api/admin/orders, /api/auth or /api/slider
\* is answered by that router or, through it, by the error handler, and never
\* by the 404 handler of '/api/*'.
RoutedRequestsReachRouter ==
    (be.pc = "answered" /\ be.router # "" /\ be.allow /\ be.body # "malformed") =>
        be.res.by \in {be.router, "errorHandler"}

-----------------------------------------------------------------------------
(* Client components and the admin order router, one at a time *)

\* The main image of a product: in ProductCard and ProductPage
\*   product.images?.find(img => img.isPrimary) || product.images?.[0]
\* and in the grid of ProductsContent
\*   product.images?.[0]
primaryImage ==
    /\ ui.at = "image"
    /\ ui.pc = "given"
    /\ LET images == ui.images
           items == IF images = Undefined THEN <<>> ELSE images.items
           first == IF items = <<>> THEN Undefined ELSE items[1]
           flagged == {i \in DOMAIN items : JsTruthy(Get(items[i], "isPrimary"))}
           find == IF flagged = {}
                     THEN Undefined
                     ELSE items[CHOOSE i \in flagged : \A j \in flagged : i <= j]
       IN  ui' = [ui EXCEPT !.pc = "shown",
                            !.image = IF ui.place = "ProductsContent"
                                        THEN first
                                        ELSE JsOr(find, first)]
    /\ UNCHANGED <<cacheVars, pageVars, nz, od, be>>

\* const visiblePages = generateVisiblePages(currentPage, totalPages)
visiblePages ==
    /\ ui.at = "pagination"
    /\ ui.pc = "given"
    /\ ui' = [ui EXCEPT !.pc = "shown",
                        !.pages = generateVisiblePages(Num(ui.current), Num(ui.total))]
    /\ UNCHANGED <<cacheVars, pageVars, nz, od, be>>

\* adminOrderRouter with the routes that take :orderId registered first
adminOrderRouterParamsFirst ==
    /\ ui.at = "router"
    /\ ui.pc = "given"
    /\ LET On(method, path, handler) ==
               [method |-> method, path |-> path, handler |-> handler]
           routes ==
               <<On("GET", <<>>, "getOrders"),
                 On("GET", <<":orderId">>, "getOrderById"),
                 On("PUT", <<":orderId", "status">>, "updateOrderStatus"),
                 On("PUT", <<":orderId", "payment">>, "updatePaymentStatus"),
                 On("DELETE", <<":orderId">>, "deleteOrder"),
                 On("GET", <<"stats">>, "getOrderStats"),
                 On("GET", <<"export">>, "exportOrders"),
                 On("PUT", <<"bulk-update">>, "bulkUpdateOrders")>>
           Matches(route) ==
               /\ route.method = ui.method
               /\ Len(route.path) = Len(ui.path)
               /\ \A i \in DOMAIN route.path :
                     route.path[i] = ":orderId" \/ route.path[i] = ui.path[i]
           hits == {i \in DOMAIN routes : Matches(routes[i])}
       IN  ui' = [ui EXCEPT !.pc = "routed",
                            !.handler =
                                IF ~ui.authenticated THEN "auth"
                                ELSE IF hits = {} THEN "next"
                                ELSE routes[CHOOSE i \in hits : \A j \in hits : i <= j].handler]
    /\ UNCHANGED <<cacheVars, pageVars, nz, od, be>>
\* The admin order router: router.use(auth), then the first route, in the
\* order of registration, whose method and path match the request handles
\* it; a request no route matches leaves the router.
adminOrderRouter ==
    /\ ui.at = "router"
    /\ ui.pc = "given"
    /\ LET On(method, path, handler) ==
               [method |-> method, path |-> path, handler |-> handler]
           routes ==
               <<On("GET", <<"stats">>, "getOrderStats"),
                 On("GET", <<"export">>, "exportOrders"),
                 On("GET", <<>>, "getOrders"),
                 On("GET", <<":orderId">>, "getOrderById"),
                 On("PUT", <<":orderId", "status">>, "updateOrderStatus"),
                 On("PUT", <<":orderId", "payment">>, "updatePaymentStatus"),
                 On("PUT", <<"bulk-update">>, "bulkUpdateOrders"),
                 On("DELETE", <<":orderId">>, "deleteOrder")>>
           Matches(route) ==
               /\ route.method = ui.method
               /\ Len(route.path) = Len(ui.path)
               /\ \A i \in DOMAIN route.path :
                     route.path[i] = ":orderId" \/ route.path[i] = ui.path[i]
           hits == {i \in DOMAIN routes : Matches(routes[i])}
       IN  ui' = [ui EXCEPT !.pc = "routed",
                            !.handler =
                                IF ~ui.authenticated THEN "auth"
                                ELSE IF hits = {} THEN "next"
                                ELSE routes[CHOOSE i \in hits : \A j \in hits : i <= j].handler]
    /\ UNCHANGED <<cacheVars, pageVars, nz, od, be>>

-----------------------------------------------------------------------------
(* AuthProvider *)

\* A user is null or a user object.  A stored string is null (the key is
\* absent) or the sequence of its pieces; JSON.stringify(user) is "{", the
\* user's id, "}", and JSON.parse gives the user back, gives null for "null",
\* and throws on anything else.

\* checkAuth: the user is read from localStorage; when the stored user does
\* not parse both keys are removed
checkAuth ==
    /\ ui.at = "auth"
    /\ ui.ops < MaxOps
    /\ LET token == ui.userToken
           userData == ui.userData
           text == userData.s
           parses == text = <<"null">> \/ (Len(text) = 3 /\ text[1] = "{" /\ text[3] = "}")
           parsed == IF text = <<"null">> THEN Null ELSE [tag |-> "user", id |-> text[2]]
           Done(user, userToken, stored) ==
               [ui EXCEPT !.user = user, !.userToken = userToken, !.userData = stored,
                          !.op = "checkAuth", !.success = TRUE, !.ops = ui.ops + 1]
       IN  ui' = IF token # Null /\ token.s # <<>> /\ userData # Null /\ text # <<>>
                   THEN IF parses
                          THEN Done(parsed, token, userData)
                          ELSE Done(Null, Null, Null)
                   ELSE Done(Null, token, userData)
    /\ UNCHANGED <<cacheVars, pageVars, nz, od, be>>

\* login, from the call to its return.  reply: what fetch and response.json()
\* gave; redirect: the redirect parameter of the page's URL
login(reply, redirect) ==
    /\ ui.at = "auth"
    /\ ui.ops < MaxOps
    /\ LET Returned(success) ==
               [ui EXCEPT !.op = "login", !.success = success, !.ops = ui.ops + 1]
           LoggedIn(success) ==
               [Returned(success) EXCEPT
                    !.user = reply.data.user,
                    !.userToken = Str(reply.data.token),
                    !.userData = Str(<<"{", reply.data.user.id, "}">>)]
           \* decodeURIComponent throws a URIError on a percent sign that no
           \* two hexadecimal digits follow, here the piece "%"
           decodes == \A i \in DOMAIN redirect.s : redirect.s[i] # "%"
       IN  ui' = IF reply.kind = "ok" /\ reply.success
                   THEN IF redirect # Null /\ redirect.s # <<>>
                          THEN LoggedIn(decodes)
                          ELSE LoggedIn(TRUE)
                   ELSE Returned(FALSE)
    /\ UNCHANGED <<cacheVars, pageVars, nz, od, be>>

\* register, from the call to its return
register(reply) ==
    /\ ui.at = "auth"
    /\ ui.ops < MaxOps
    /\ LET Returned(success) ==
               [ui EXCEPT !.op = "register", !.success = success, !.ops = ui.ops + 1]
       IN  ui' = IF reply.kind = "ok" /\ reply.success
                   THEN [Returned(TRUE) EXCEPT
                             !.user = reply.data.user,
                             !.userToken = Str(reply.data.token),
                             !.userData = Str(<<"{", reply.data.user.id, "}">>)]
                   ELSE Returned(FALSE)
    /\ UNCHANGED <<cacheVars, pageVars, nz, od, be>>

\* logout
logout ==
    /\ ui.at = "auth"
    /\ ui.ops < MaxOps
    /\ ui' = [ui EXCEPT !.user = Null, !.userToken = Null, !.userData = Null,
                        !.op = "logout", !.success = TRUE, !.ops = ui.ops + 1]
    /\ UNCHANGED <<cacheVars, pageVars, nz, od, be>>

-----------------------------------------------------------------------------
(* CartPage: move to wishlist *)

\* handleMoveToWishlist(productId) up to its first await, for a click on the
\* button of the i-th item shown; productId is getCartItemId(item, index)
handleMoveToWishlist(i) ==
    /\ ui.at = "cart"
    /\ ui.ops < MaxOps
    /\ i \in DOMAIN ui.cart
    /\ LET item == ui.cart[i]
           productId == JsOr(item._id, item.product._id)
           found == {j \in DOMAIN ui.cart : ui.cart[j].product._id = productId}
           Returned == [ui EXCEPT !.ops = ui.ops + 1]
       IN  /\ ui.movingToWishlist # productId
           /\ productId.s \in DOMAIN ui.calls => ui.calls[productId.s] = "idle"
           /\ ui' = IF ~ui.isAuthenticated THEN Returned
                    ELSE IF found = {} THEN Returned
                    ELSE [Returned EXCEPT !.movingToWishlist = productId,
                                          !.calls[productId.s] = "addToWishlist"]
    /\ UNCHANGED <<cacheVars, pageVars, nz, od, be>>

\* handleMoveToWishlistResume where a failure of addToWishlist is not caught
handleMoveToWishlistResumeUncaught(p) ==
    /\ ui.at = "cart"
    /\ ui.calls[p] # "idle"
    /\ \E settled \in {"completes", "throws"} :
          ui' = IF ui.calls[p] = "addToWishlist"
                  THEN [ui EXCEPT !.wishlist = IF settled = "completes" THEN @ \cup {p} ELSE @,
                                  !.calls[p] = "removeFromCart"]
                  ELSE [ui EXCEPT !.cart = IF settled = "completes"
                                             THEN SelectSeq(@, LAMBDA item : item.product._id.s # p)
                                             ELSE @,
                                  !.movingToWishlist = Null,
                                  !.calls[p] = "idle"]
    /\ UNCHANGED <<cacheVars, pageVars, nz, od, be>>
\* handleMoveToWishlist from an await on: addToWishlist has settled and
\* removeFromCart is called, or the catch and the finally block run; or
\* removeFromCart has settled and the finally block runs
handleMoveToWishlistResume(p) ==
    /\ ui.at = "cart"
    /\ ui.calls[p] # "idle"
    /\ \E settled \in {"completes", "throws"} :
          ui' = IF ui.calls[p] = "addToWishlist"
                  THEN IF settled = "completes"
                         THEN [ui EXCEPT !.wishlist = @ \cup {p},
                                         !.calls[p] = "removeFromCart"]
                         ELSE [ui EXCEPT !.movingToWishlist = Null,
                                         !.calls[p] = "idle"]
                  ELSE [ui EXCEPT !.cart = IF settled = "completes"
                                             THEN SelectSeq(@, LAMBDA item : item.product._id.s # p)
                                             ELSE @,
                                  !.movingToWishlist = Null,
                                  !.calls[p] = "idle"]
    /\ UNCHANGED <<cacheVars, pageVars, nz, od, be>>

-----------------------------------------------------------------------------
(* The components' inputs *)

\* One component is at work, with what it was given: a product's images, a
\* current page and a number of pages, a request to the admin order router,
\* the browser's localStorage at the mount of AuthProvider, the cart and the
\* wishlist at the mount of CartPage.
InitClient ==
    LET Image(i, flag) == Obj([url |-> Str(<<"image", i>>), isPrimary |-> flag])
        Flags == {Bool(TRUE), Bool(FALSE), Undefined}
        Images == {Undefined} \cup
                  UNION {{List([i \in 1..n |-> Image(i, flags[i])]) : flags \in [1..n -> Flags]} :
                         n \in 0..MaxImages}
        Paths == {<<>>, <<"stats">>, <<"export">>, <<"bulk-update">>, <<"o1">>,
                  <<"o1", "status">>, <<"o1", "payment">>, <<"stats", "status">>,
                  <<"o1", "items">>}
        Stored == {Null, Str(<<>>), Str(<<"{", "u0", "}">>), Str(<<"{", "u0">>),
                   Str(<<"null">>)}
        Item(line, p) == [_id |-> line, product |-> [_id |-> Str(p)]]
        Carts == {<<>>, <<Item(Undefined, "p1")>>, <<Item(Str("c1"), "p1")>>,
                  <<Item(Undefined, "p1"), Item(Undefined, "p2")>>,
                  <<Item(Str("c1"), "p1"), Item(Undefined, "p2")>>}
    IN  /\ Loaded
        /\ nz = [pc |-> "idle", kind |-> "", data |-> Undefined, out |-> Undefined]
        /\ be = [pc |-> "off"]
        /\ \/ \E images \in Images, place \in {"ProductCard", "ProductPage", "ProductsContent"} :
                 ui = [at |-> "image", pc |-> "given", images |-> images, place |-> place,
                       image |-> Undefined]
           \/ \E total \in 1..MaxPages : \E current \in 1..total :
                 ui = [at |-> "pagination", pc |-> "given", current |-> current,
                       total |-> total, pages |-> <<>>]
           \/ \E method \in {"GET", "PUT", "DELETE", "POST"}, path \in Paths,
                 authenticated \in BOOLEAN :
                 ui = [at |-> "router", pc |-> "given", method |-> method, path |-> path,
                       authenticated |-> authenticated, handler |-> ""]
           \/ \E userToken \in {Null, Str(<<>>), Str(<<"token", "u0">>)}, userData \in Stored :
                 ui = [at |-> "auth", user |-> Null, userToken |-> userToken,
                       userData |-> userData, op |-> "", success |-> FALSE, ops |-> 0]
           \/ \E cart \in Carts, wishlist \in {{}, {"p2"}}, isAuthenticated \in BOOLEAN :
                 ui = [at |-> "cart", cart |-> cart, wishlist |-> wishlist,
                       isAuthenticated |-> isAuthenticated, movingToWishlist |-> Null,
                       calls |-> [p \in {"p1", "p2"} |-> "idle"], ops |-> 0]

NextClient ==
    \/ primaryImage
    \/ visiblePages
    \/ adminOrderRouter
    \/ checkAuth
    \/ \E user \in {"u1", "u2"}, redirect \in {Null, Str(<<"/cart">>), Str(<<"/products?search=50", "%">>)} :
          \E reply \in {Failure, Body(FALSE, Null),
                        Body(TRUE, [token |-> <<"token", user>>,
                                    user |-> [tag |-> "user", id |-> user]])} :
             login(reply, redirect)
    \/ \E user \in {"u1", "u2"} :
          \E reply \in {Failure, Body(FALSE, Null),
                        Body(TRUE, [token |-> <<"token", user>>,
                                    user |-> [tag |-> "user", id |-> user]])} :
             register(reply)
    \/ logout
    \/ \E i \in 1..2 : handleMoveToWishlist(i)
    \/ \E p \in {"p1", "p2"} : handleMoveToWishlistResume(p)

SpecClient == InitClient /\ [][NextClient]_vars

-----------------------------------------------------------------------------
(* The category reads once more, checked under Spec *)

CacheHoldsNoPreWriteData ==
    hist.anyWrite =>
        /\ categoriesCache.data.tag = "list" =>
              \A i \in DOMAIN categoriesCache.data.items :
                  categoriesCache.data.items[i].ver >= 1
        /\ \A k \in DOMAIN categoryCache : categoryCache[k].data.ver >= 1

\* C26: a keyed read answered from the cache returns the category of its own
\* kind of lookup: getById(k) the category whose id is k, getBySlug(k) the
\* category whose slug is k.
CachedLookupMatchesKind ==
    (ev.kind = "return" /\ ev.how = "hit" /\ ev.op \in {"getBySlug", "getById"}) =>
        IF ev.op = "getById" THEN ev.result.id = ev.key ELSE ev.result.slug = ev.key

-----------------------------------------------------------------------------
(* The parent link of a category, checked under SpecNormalize *)

\* C24: normalizeCategory keeps the parent link: a non-empty parentId comes
\* out as that string, a missing, null or empty parentId comes out as null.
CategoryParentLinkKept ==
    (nz.pc = "output" /\ nz.kind = "category" /\ nz.data.tag = "object") =>
        LET parentId == Get(nz.data, "parentId")
        IN  Get(nz.out, "parentId") =
                IF parentId \in {Undefined, Null, Str("")} THEN Null ELSE parentId

-----------------------------------------------------------------------------
(* The admin notes, checked under SpecOrders *)

\* C25: the request that saves the admin notes leaves the order's status on
\* the server as it was just before the request was served.
SavingNotesKeepsStatus ==
    [][(/\ od.admin.pc = "writing"
        /\ od.admin.write = "handleSaveAdminNotes"
        /\ od.admin.reply = NoReply
        /\ od'.admin.reply # NoReply) => od'.status = od.status]_vars

-----------------------------------------------------------------------------
(* The client components and the admin order router, checked under SpecClient *)

\* C21: wherever the main image of a product is chosen (the product card, the
\* product page, the grid of the category page), it is the first image of the
\* list that is flagged isPrimary, or the first image when none is flagged.
MainImageIsPrimary ==
    (ui.at = "image" /\ ui.pc = "shown" /\ ui.images # Undefined) =>
        LET items == ui.images.items
            flagged == {i \in DOMAIN items : Get(items[i], "isPrimary") = Bool(TRUE)}
        IN  IF items = <<>> THEN ui.image = Undefined
            ELSE IF flagged = {} THEN ui.image = items[1]
            ELSE \E i \in flagged : ui.image = items[i] /\ \A j \in flagged : i <= j

\* C27: in the admin order router GET /stats goes to the statistics handler,
\* GET /export to the export handler and PUT /bulk-update to the bulk update
\* handler, unless the auth middleware answers first; none of them goes to a
\* handler of a route with :orderId.
SpecificRoutesWin ==
    (ui.at = "router" /\ ui.pc = "routed") =>
        LET Goes(method, path, handler) ==
                (ui.method = method /\ ui.path = path) =>
                    ui.handler = IF ui.authenticated THEN handler ELSE "auth"
        IN  /\ Goes("GET", <<"stats">>, "getOrderStats")
            /\ Goes("GET", <<"export">>, "exportOrders")
            /\ Goes("PUT", <<"bulk-update">>, "bulkUpdateOrders")

\* C27 happens: an authenticated GET /stats, which the pattern /:orderId
\* matches too, went to the statistics handler
StatsRouted ==
    /\ ui.at = "router"
    /\ ui.pc = "routed"
    /\ ui.authenticated
    /\ ui.method = "GET"
    /\ ui.path = <<"stats">>
    /\ ui.handler = "getOrderStats"

\* C28: after each of checkAuth, login, register and logout the user is
\* non-null only if userToken and userData are both in localStorage; a login
\* or register that fails leaves the user and both keys as they were; logout
\* leaves the user null and both keys removed.
AuthUserMatchesStorage ==
    [][(ui.at = "auth" /\ ui'.ops # ui.ops) =>
          /\ ui'.user # Null => (ui'.userToken # Null /\ ui'.userData # Null)
          /\ (ui'.op \in {"login", "register"} /\ ~ui'.success) =>
                /\ ui'.user = ui.user
                /\ ui'.userToken = ui.userToken
                /\ ui'.userData = ui.userData
          /\ ui'.op = "logout" =>
                /\ ui'.user = Null
                /\ ui'.userToken = Null
                /\ ui'.userData = Null]_vars

\* C29: moving a cart item to the wishlist is add, then remove:
\* removeFromCart is called only when addToWishlist has completed; the cart
\* changes only when that removeFromCart completes, so it is unchanged when
\* the user is not authenticated and when addToWishlist throws; and when the
\* operation ends movingToWishlist is null.
MoveIsAddThenRemove ==
    [][ui.at = "cart" =>
          /\ \A p \in DOMAIN ui.calls :
                /\ (ui.calls[p] # "removeFromCart" /\ ui'.calls[p] = "removeFromCart") =>
                      /\ ui.calls[p] = "addToWishlist"
                      /\ p \in ui'.wishlist
                /\ (ui.calls[p] # "idle" /\ ui'.calls[p] = "idle") =>
                      /\ ui'.movingToWishlist = Null
                      /\ ui.calls[p] = "addToWishlist" =>
                            (ui'.cart = ui.cart /\ ui'.wishlist = ui.wishlist)
          /\ ui'.cart # ui.cart =>
                \E p \in DOMAIN ui.calls :
                   ui.calls[p] = "removeFromCart" /\ ui'.calls[p] = "idle"
          /\ ~ui.isAuthenticated => (ui'.cart = ui.cart /\ ui'.calls = ui.calls)]_vars

\* C29 happens: the item was added to the wishlist and then removed from the
\* cart, and the marker is null again
MovedToWishlist ==
    /\ ui.at = "cart"
    /\ ui.ops = 1
    /\ "p1" \in ui.wishlist
    /\ \A i \in DOMAIN ui.cart : ui.cart[i].product._id # Str("p1")
    /\ ui.calls["p1"] = "idle"
    /\ ui.movingToWishlist = Null

\* C30: for total >= 1 and 1 <= current <= total the numbers of
\* generateVisiblePages(current, total) are strictly increasing, lie in
\* 1..total and include 1, total and current; when total <= 7 the list is
\* 1..total; and an ellipsis stands only between two numbers that are not
\* consecutive.
VisiblePagesWellFormed ==
    (ui.at = "pagination" /\ ui.pc = "shown") =>
        LET pages == ui.pages
            IsNumber(i) == "nan" \in DOMAIN pages[i]
            numbers == {i \in DOMAIN pages : IsNumber(i)}
        IN  /\ \A i, j \in numbers : i < j => pages[i].n < pages[j].n
            /\ \A i \in numbers : ~pages[i].nan /\ pages[i].n \in 1..ui.total
            /\ \A n \in {1, ui.total, ui.current} : \E i \in numbers : pages[i].n = n
            /\ ui.total <= 7 => pages = [i \in 1..ui.total |-> Num(i)]
            /\ \A i \in DOMAIN pages \ numbers :
                  /\ i - 1 \in numbers
                  /\ i + 1 \in numbers
                  /\ pages[i + 1].n > pages[i - 1].n + 1

\* C30 happens: a list with an ellipsis on both sides of the current page
EllipsisOnBothSides ==
    /\ ui.at = "pagination"
    /\ ui.pc = "shown"
    /\ Len(ui.pages) = 7
    /\ ui.pages[2] = Ellipsis
    /\ ui.pages[4] = Num(ui.current)
    /\ ui.pages[6] = Ellipsis

====
